---- MODULE Spec2Model ----
(***************************************************************************)
(* News-Fetcher: the resumable scan-progress state machine                 *)
(* (modules/utils/scan_progress.py) and the target loops of the scan       *)
(* engines that drive it (macro_engine.py, stocks_engine.py,               *)
(* marketaux_engine.py), together with the dashboard's resume controls     *)
(* (streamlit_app.py), and the engines' candidate pipeline: filter         *)
(* cascade, fetch retries, inserts into the store, browser sessions.       *)
(*                                                                         *)
(* Spec      the engines and the dashboard acting on the state file        *)
(* SpecLib   the same with run_company_specific_scan callable              *)
(* SpecApi   the ScanProgressManager methods called in arbitrary sequences *)
(* SpecScan  engine runs followed feed entry by feed entry                 *)
(* SpecFetch one engine run with fetch_yahoo_selenium followed inside       *)
(* SpecWindow the date check the engines apply to feed entries             *)
(* SpecCal   the MarketCalendar functions called with dates and instants   *)
(* SpecTitle normalize_title called with titles of a few shapes             *)
(* SpecHunt  main.py's loop of hunt attempts                               *)
(* SpecSteps the ScanProgressManager calls of two processes, step by step  *)
(* SpecMeta  the MarketAux metadata request loop                           *)
(***************************************************************************)
EXTENDS Integers, Sequences, FiniteSets, TLC

\* ------------------------------------------------------------------ bounds
\* How many entries of each target table / pool the model keeps.
MaxMacro == 1
MaxEvents == 1
MaxStocks == 2
MaxTickers == 2
\* how many distinct names a direct caller of the manager uses in its lists
MaxApiTargets == 2
\* how many entries of the candidate table the feeds draw from
MaxCandidates == 5
\* how many feed entries the engine runs work through altogether
MaxItems == 2
\* how many browser sessions one engine run launches at most
MaxSessions == 2
\* how many engine runs follow one another over the same store
MaxRuns == 2

\* ------------------------------------------------------------ name tables
MacroNamePool ==
  << "Federal Reserve", "Economic Indicators", "Treasury & Bonds",
     "Economic Growth", "Energy & Oil", "Commodities", "Geopolitics",
     "Trump Tariff Updates", "Currencies (FX)", "Crypto & Bitcoin" >>

StockNamePool ==
  << "Earnings & Results", "Analyst Upgrades/Downgrades",
     "Mergers & Acquisitions", "IPO & Public Offerings",
     "Insider Trades & Buybacks", "Sector News (Tech/Energy/Banks)",
     "General Stock Market" >>

EventNamePool == << "EVENT: CPI", "EVENT: FOMC", "EVENT: NFP" >>

TickerPool == << "AAPL", "TSLA", "GOOG", "META" >>

\* names of the entries of MACRO_RSS_TARGETS, in table order
MACRO_RSS_TARGETS == SubSeq(MacroNamePool, 1, MaxMacro)

\* names of the entries of YAHOO_RSS_TARGETS, in table order
YAHOO_RSS_TARGETS == SubSeq(StockNamePool, 1, MaxStocks)

\* names of the calendar event feeds that can be injected, in calendar order
EventFeeds == SubSeq(EventNamePool, 1, MaxEvents)

\* the monitored tickers, in watchlist order
TickerList == SubSeq(TickerPool, 1, MaxTickers)

Dates == { "2025-01-06" }

None == "None"

\* --------------------------------------------------------- list utilities
Range(s) == { s[i] : i \in DOMAIN s }

\* Python: x in list
In(x, s) == x \in Range(s)

\* Python: [t for t in s if t in keep]
KeepIn(s, keep) == SelectSeq(s, LAMBDA t : t \in keep)

\* Python: [t for t in s if t not in drop]
KeepOut(s, drop) == SelectSeq(s, LAMBDA t : t \notin drop)

NoDup(s) == \A i, j \in DOMAIN s : s[i] = s[j] => i = j

\* all duplicate-free sequences over a finite set
RECURSIVE SeqsOver(_)
SeqsOver(S) ==
  IF S = {} THEN { <<>> }
  ELSE { <<>> } \cup
       UNION { { <<x>> \o r : r \in SeqsOver(S \ {x}) } : x \in S }

\* all subsequences of s, each in the order of s
SubSeqsOf(s) == { KeepIn(s, K) : K \in SUBSET Range(s) }

\* ---------------------------------------------------------- the state file
\* The record kept in scan_state.json.  start_time is a wall-clock stamp no
\* code reads back; it is left out.  A key absent from the JSON object reads
\* as None, as dict.get does.
DefaultState ==
  [ active_scan |-> FALSE, scan_type |-> None, target_date |-> None,
    total_targets |-> <<>>, completed_targets |-> <<>>,
    current_target |-> None ]

\* The file on disk: absent, present but not parseable as JSON (for instance
\* empty), or holding a record.
MissingFile == [ disk |-> "missing", data |-> DefaultState ]
CorruptFile == [ disk |-> "corrupt", data |-> DefaultState ]

\* util_save_state: the file after json.dump(state)
util_save_state(state) == [ disk |-> "ok", data |-> state ]

\* _ensure_file: write the default record when the file does not exist
ensure_file(f) ==
  IF f.disk = "missing" THEN util_save_state(DefaultState) ELSE f

\* load_state: the record returned.  On FileNotFoundError / JSONDecodeError
\* the default record is returned after being saved, so in every case the
\* file holds the returned record afterwards.
load_state(f) == IF f.disk = "ok" THEN f.data ELSE DefaultState

\* start_new_scan that forgets the target list
start_new_scan_NoTargets(scan_type, target_list, target_date_str) ==
  util_save_state(
    [ active_scan |-> TRUE, scan_type |-> scan_type,
      target_date |-> target_date_str,
      total_targets |-> <<>>, completed_targets |-> <<>>,
      current_target |-> None ])

\* start_new_scan: the file after the call (the old content is not read)
start_new_scan(scan_type, target_list, target_date_str) ==
  util_save_state(
    [ active_scan |-> TRUE, scan_type |-> scan_type,
      target_date |-> target_date_str,
      total_targets |-> target_list, completed_targets |-> <<>>,
      current_target |-> None ])

\* mark_target_start: the file after the call
mark_target_start(f, target) ==
  LET state == load_state(f) IN
  IF ~state.active_scan THEN util_save_state(state)
  ELSE util_save_state([ state EXCEPT !.current_target = target ])

\* mark_target_complete without the active_scan guard
mark_target_complete_NoGuard(f, target) ==
  LET state == load_state(f) IN
  util_save_state(
    [ state EXCEPT
        !.completed_targets =
           IF In(target, state.completed_targets) THEN @
           ELSE Append(@, target),
        !.current_target = None ])

\* mark_target_complete that appends without looking for the name
mark_target_complete_NoCheck(f, target) ==
  LET state == load_state(f) IN
  IF ~state.active_scan THEN util_save_state(state)
  ELSE util_save_state(
         [ state EXCEPT
             !.completed_targets = Append(@, target),
             !.current_target = None ])

\* mark_target_complete: the file after the call
mark_target_complete(f, target) ==
  LET state == load_state(f) IN
  IF ~state.active_scan THEN util_save_state(state)
  ELSE util_save_state(
         [ state EXCEPT
             !.completed_targets =
                IF In(target, state.completed_targets) THEN @
                ELSE Append(@, target),
             !.current_target = None ])

\* finish_scan: the file after the call
finish_scan(f) ==
  util_save_state(
    [ load_state(f) EXCEPT !.active_scan = FALSE, !.current_target = None ])

\* remaining = [t for t in total if t not in done]
remaining(state) ==
  KeepOut(state.total_targets, Range(state.completed_targets))

\* get_resume_info: whether a dict (rather than None) is returned
resume_offered(f) ==
  LET state == load_state(f) IN
  state.active_scan /\ remaining(state) # <<>>

\* get_resume_info: the dict returned when one is returned
get_resume_info(f) ==
  LET state == load_state(f) IN
  [ type |-> state.scan_type,
    target_date |-> state.target_date,
    remaining |-> remaining(state),
    completed_count |-> Len(state.completed_targets),
    total_count |-> Len(state.total_targets),
    last_target |-> state.current_target ]

\* get_resume_info that returns None without finishing the scan
get_resume_info_file_NoFinish(f) == util_save_state(load_state(f))

\* get_resume_info: the file after the call
get_resume_info_file(f) ==
  LET state == load_state(f) IN
  IF ~state.active_scan THEN util_save_state(state)
  ELSE IF remaining(state) = <<>> THEN finish_scan(util_save_state(state))
  ELSE util_save_state(state)

\* clear_state: the file after the call
clear_state(f) == finish_scan(f)

\* ------------------------------------------------------------ the engines
\* macro      run_macro_scan                     (macro_engine.py)
\* stocks     run_stocks_scan                    (stocks_engine.py)
\* company    MarketAuxEngine.run_company_scan   (marketaux_engine.py)
\* tickerscan run_company_specific_scan          (stocks_engine.py), which no
\*            orchestrator calls; it is reachable only in SpecLib
Engines == { "macro", "stocks", "company" }

\* the scan_type each engine passes to start_new_scan
ScanTypeOf(e) ==
  CASE e = "macro" -> "MACRO"
    [] e = "stocks" -> "STOCKS"
    [] e = "company" -> "COMPANY"
    [] e = "tickerscan" -> "STOCKS"

\* run_macro_scan: rss_targets after the calendar injection and the
\* target_subset filter (an empty subset is falsy: no filter)
rss_targets(event_feeds, target_subset) ==
  LET all == MACRO_RSS_TARGETS \o event_feeds IN
  IF target_subset # {} THEN KeepIn(all, target_subset) ELSE all

\* run_stocks_scan: active_targets after the target_subset filter
active_targets(target_subset) ==
  IF target_subset # {} THEN KeepIn(YAHOO_RSS_TARGETS, target_subset)
  ELSE YAHOO_RSS_TARGETS

\* the resume filter left out
ResumeFilter_Ignored(e, names, resume_targets) == names

\* "FILTER IF RESUMING": the list the loop iterates.  The MarketAux engine
\* and run_company_specific_scan have no resume_targets parameter; they
\* iterate the ticker_list they were given.
ResumeFilter(e, names, resume_targets) ==
  IF e \in { "macro", "stocks" } /\ resume_targets # <<>>
  THEN KeepIn(names, Range(resume_targets))
  ELSE names

\* "Smart Tracking Init": ScanProgressManager() then load_state(), and
\* start_new_scan only when the loaded state is not active
TrackingInitFile(f, e, names, date) ==
  LET curr_state == load_state(ensure_file(f)) IN
  IF ~curr_state.active_scan
  THEN start_new_scan(ScanTypeOf(e), names, date)
  ELSE util_save_state(curr_state)

\* what happened to one target between mark_target_start and the end of
\* the loop body:
\*   empty      the feed (or both discovery protocols) returned no entries
\*   processed  the candidates were worked through
\*   error      an exception (feed error, dead browser) left the body early
BodyOutcomes == { "empty", "processed", "error" }

\* does the loop body reach pm.mark_target_complete for this target
CompletesTarget(e, outcome) ==
  CASE e = "macro" -> outcome # "empty"
    [] e = "stocks" -> FALSE
    [] e = "company" -> outcome # "error"
    [] e = "tickerscan" -> FALSE

\* does the loop body raise out of the for loop (run_company_specific_scan
\* names the undefined feed_name at its TRACKING COMPLETE line)
AbortsLoop(e, outcome) == e = "tickerscan" /\ outcome # "empty"

\* the finally block calling pm.finish_scan() whatever was iterated
FinishesScan_Always(e, iterated) == e # "stocks"

\* the finally block: is pm.finish_scan() called
FinishesScan(e, iterated) ==
  CASE e = "macro" -> Len(iterated) > 0
    [] e = "stocks" -> FALSE
    [] e = "company" -> Len(iterated) > 0
    [] e = "tickerscan" -> FALSE

\* ------------------------------------------------- titles, urls, sources
\* A title is its headline (base), the letter case it is written in and the
\* " - <source>" parts that follow the headline, in order.  An url is its
\* identity, whether it carries a ?query, its host and the source names that
\* occur in it.
Title(base, case, tail) == [ base |-> base, case |-> case, tail |-> tail ]

Url(id, query, host, words) ==
  [ id |-> id, query |-> query, host |-> host, words |-> words ]

\* market_utils.BLOCKED_SOURCES, PREMIUM_SOURCES
BLOCKED_SOURCES ==
  { "MOTLEY FOOL", "SIMPLY WALL ST", "BENZINGA", "ZACKS", "GLOBENEWSWIRE" }

PREMIUM_SOURCES ==
  { "BLOOMBERG", "REUTERS", "CNBC", "WSJ", "WALL STREET JOURNAL",
    "FINANCIAL TIMES", "BARRON'S" }

\* the engines' "fast" keyword lists for titles and urls
TitleKeywords == { "MOTLEY FOOL", "ZACKS", "BENZINGA" }

UrlKeywords == { "MOTLEY-FOOL", "ZACKS", "BENZINGA" }

\* foreign_markers
ForeignMarkers ==
  { "YAHOO FINANCE UK", "YAHOO! FINANCE CANADA", "YAHOO FINANCE AUSTRALIA",
    "YAHOO FINANCE SINGAPORE" }

\* normalize_title's suffixes, in list order (each is " - " + the name)
Suffixes ==
  << "Yahoo Finance", "Bloomberg", "Reuters", "CNBC", "MarketWatch",
     "The Wall Street Journal" >>

\* the source names that occur in a piece of title text once upper-cased
Mentions(text) ==
  CASE text = "Bloomberg" -> { "BLOOMBERG" }
    [] text = "Reuters" -> { "REUTERS" }
    [] text = "CNBC" -> { "CNBC" }
    [] text = "The Wall Street Journal" -> { "WALL STREET JOURNAL" }
    [] text = "Simply Wall St" -> { "SIMPLY WALL ST" }
    [] text = "GlobeNewswire" -> { "GLOBENEWSWIRE" }
    [] text = "Yahoo Finance UK" -> { "YAHOO FINANCE UK" }
    [] text = "Zacks names 3 stocks to buy" -> { "ZACKS" }
    [] OTHER -> {}

\* marker in title.upper()
Contains(title, marker) ==
  marker \in UNION { Mentions(w) : w \in { title.base } \cup Range(title.tail) }

\* str.lower()
lower(title) == [ title EXCEPT !.case = "lower" ]

\* normalize_title: one pass over the suffix list, each suffix removed when
\* the title ends with it at that moment
RECURSIVE StripFrom(_, _)
StripFrom(tail, i) ==
  IF i > Len(Suffixes) THEN tail
  ELSE IF tail # <<>> /\ tail[Len(tail)] = Suffixes[i]
       THEN StripFrom(SubSeq(tail, 1, Len(tail) - 1), i + 1)
       ELSE StripFrom(tail, i + 1)

\* (a title without a headline has lost the blank before its first " - "
\* to strip(), so its first part is no suffix)
normalize_title(title) ==
  IF title.base = "" /\ title.tail # <<>>
    THEN [ title EXCEPT !.tail = << Head(@) >> \o StripFrom(Tail(@), 1) ]
    ELSE [ title EXCEPT !.tail = StripFrom(@, 1) ]

\* how many " - <source>" parts the titles given to normalize_title carry
MaxTail == 3

\* what follows the headline in those titles: three known suffixes, one of
\* them in another letter case, and a source that is no suffix
TailNames ==
  { "Yahoo Finance", "Bloomberg", "Reuters", "yahoo finance",
    "Simply Wall St" }

SeqsUpTo(S, n) == UNION { [ 1..k -> S ] : k \in 0..n }

\* the arguments: None, "", blanks only, or a title with or without blanks
\* around it
TitleArgs ==
  { [ kind |-> k, pad |-> FALSE, title |-> Title("", "Title", <<>>) ] :
      k \in { "None", "empty" } }
  \cup { [ kind |-> "blank", pad |-> TRUE,
           title |-> Title("", "Title", <<>>) ] }
  \cup { [ kind |-> "text", pad |-> pad,
           title |-> Title("Analysis", "Title", tail) ] :
           pad \in BOOLEAN, tail \in SeqsUpTo(TailNames, MaxTail) }
  \cup { [ kind |-> "text", pad |-> pad, title |-> Title("", "Title", tail) ] :
           pad \in BOOLEAN,
           tail \in SeqsUpTo(TailNames, MaxTail) \ { <<>> } }

\* the key the engines look up and store: normalize_title(title).lower()
norm_title(title) == lower(normalize_title(title))

\* real_url.split('?')[0]
clean_url(url) == [ url EXCEPT !.query = FALSE ]

\* "yahoo.com" in domain and domain not in the two US hosts
NonUsYahoo(url) == url.host = "uk.finance.yahoo.com"

\* is_premium_source(title, url)
is_premium_source(title, url) ==
  \E src \in PREMIUM_SOURCES : Contains(title, src) \/ src \in url.words

\* a retry loop that gives every candidate two attempts
max_attempts_Two(c) == IF is_premium_source(c.title, c.url) THEN 2 ELSE 2

\* max_attempts of the retry loop
max_attempts(c) == IF is_premium_source(c.title, c.url) THEN 2 ELSE 1

\* The feed entries the model draws from (all inside the date window):
\*   1  a plain story
\*   2  the same story syndicated: other case, a suffix, another url
\*   3  a premium-source story
\*   4  a title with a fast-blocklist keyword
\*   5  a title naming a blocked source that is not a fast keyword
\*   6  a plain title whose url has a blocked keyword
AllCandidates ==
  << [ title |-> Title("Fed holds rates", "Title", <<>>),
       url |-> Url("u1", TRUE, "news.google.com", {}) ],
     [ title |-> Title("Fed holds rates", "UPPER", << "Yahoo Finance" >>),
       url |-> Url("u2", FALSE, "news.google.com", {}) ],
     [ title |-> Title("Oil jumps", "Title", << "Reuters" >>),
       url |-> Url("u3", TRUE, "news.google.com", {}) ],
     [ title |-> Title("Zacks names 3 stocks to buy", "Title", <<>>),
       url |-> Url("u4", TRUE, "news.google.com", {}) ],
     [ title |-> Title("Is this stock undervalued?", "Title",
                       << "Simply Wall St" >>),
       url |-> Url("u5", TRUE, "news.google.com", {}) ],
     [ title |-> Title("Stocks to watch", "Title", <<>>),
       url |-> Url("u6", FALSE, "news.google.com", { "BENZINGA" }) ],
     [ title |-> Title("Gold slips", "Title", << "Yahoo Finance UK" >>),
       url |-> Url("u7", FALSE, "uk.finance.yahoo.com", {}) ] >>

CandidatePool ==
  { AllCandidates[i] : i \in 1 .. (IF MaxCandidates < Len(AllCandidates)
                                    THEN MaxCandidates
                                    ELSE Len(AllCandidates)) }

\* ----------------------------------------------------------- the store
\* NewsDatabase (modules/clients/db_client.py): a set of records
\* [url, title, category]; category is HIDDEN for a suppressed candidate and
\* NEWS for any other.
\* insert_news([item], ...): the url is the key; a second insert of an url
\* is counted as a duplicate and changes nothing
insert_news(st, item) ==
  IF \E a \in st : a.url = item.url THEN st ELSE st \cup { item }

\* article_exists(url, title)
article_exists(st, url) == \E a \in st : a.url = url

\* fetch_existing_titles / fetch_existing_titles_range: the keys of the map
fetch_existing_titles(st) == { norm_title(a.title) : a \in st }

\* fetch_cache_map: the keys of the map
fetch_cache_map(st) == { a.url : a \in { b \in st : b.category # "HIDDEN" } }

HiddenItem(title, url) ==
  [ url |-> url, title |-> title, category |-> "HIDDEN" ]

NewsItem(title, url) ==
  [ url |-> url, title |-> title, category |-> "NEWS" ]

\* ----------------------------------------------------- the filter cascade
AllEngines == Engines \cup { "tickerscan" }

\* category_tag == "EVENT_WATCH"
IsEventWatch(e, target) == e = "macro" /\ target \in Range(EventFeeds)

\* "motley fool" in t_low or "zacks" in t_low or "benzinga" in t_low
HasTitleKeyword(title) == \E k \in TitleKeywords : Contains(title, k)

\* "motley-fool" in u_low or "zacks" in u_low or "benzinga" in u_low
HasUrlKeyword(url) == \E k \in UrlKeywords : k \in url.words

IsForeign(title) == \E m \in ForeignMarkers : Contains(title, m)

\* the BLOCKED_SOURCES title scan, with the event-watch exception for ZACKS
\* where the engine has one
IsBlacklisted(e, target, title) ==
  \E bad \in BLOCKED_SOURCES :
     /\ Contains(title, bad)
     /\ ~(IsEventWatch(e, target) /\ bad = "ZACKS")

\* db.article_exists(real_url) or db.article_exists(clean_url), when a db
\* handle was passed
FoundInDb(has_db, st, url) ==
  has_db /\ (article_exists(st, url) \/ article_exists(st, clean_url(url)))

\* the title checks left out
SeenTitle_Never(e, title, titles) == FALSE

\* "if title in seen_titles" / "if norm_title in seen_titles"
SeenTitle(e, title, titles) ==
  \/ norm_title(title) \in titles
  \/ e # "macro" /\ title \in titles

\* the key an engine looks a candidate up under in cache_map
CacheKey(e, c) == IF e = "company" THEN c.url ELSE clean_url(c.url)

\* run_macro_scan: what the cascade decides for one feed entry
Verdict_macro(target, c, has_db, st, titles, urls, cache) ==
  IF FoundInDb(has_db, st, c.url) THEN "in_db"
  ELSE IF SeenTitle("macro", c.title, titles) THEN "seen_title"
  ELSE IF HasTitleKeyword(c.title) THEN "hidden_title"
  ELSE IF IsForeign(c.title) THEN "foreign"
  ELSE IF IsBlacklisted("macro", target, c.title) THEN "blocklisted"
  ELSE IF NonUsYahoo(clean_url(c.url)) THEN "nonus"
  ELSE IF HasUrlKeyword(clean_url(c.url)) THEN "hidden_url"
  ELSE IF clean_url(c.url) \in urls THEN "dup_url"
  ELSE IF clean_url(c.url) \in cache THEN "cached"
  ELSE "fetch"

\* run_stocks_scan
Verdict_stocks(target, c, has_db, st, titles, urls, cache) ==
  IF SeenTitle("stocks", c.title, titles) THEN "seen_title"
  ELSE IF HasTitleKeyword(c.title) THEN "hidden_title"
  ELSE IF FoundInDb(has_db, st, c.url) THEN "in_db"
  ELSE IF NonUsYahoo(clean_url(c.url)) THEN "nonus"
  ELSE IF HasUrlKeyword(clean_url(c.url)) THEN "hidden_url"
  ELSE IF clean_url(c.url) \in urls
       THEN (IF clean_url(c.url) \in cache THEN "cached" ELSE "dup_url")
  ELSE "fetch"

\* MarketAuxEngine.run_company_scan (its pre-flight domain check names
\* urlparse, which the module does not import: the NameError is swallowed
\* and nothing is skipped there)
Verdict_company(target, c, has_db, st, titles, urls, cache) ==
  IF SeenTitle("company", c.title, titles) THEN "seen_title"
  ELSE IF IsForeign(c.title) THEN "foreign"
  ELSE IF IsBlacklisted("company", target, c.title) THEN "blocklisted"
  ELSE IF FoundInDb(has_db, st, c.url) THEN "in_db"
  ELSE IF c.url \in cache THEN "cached"
  ELSE "fetch"

\* run_company_specific_scan (urlparse is not in scope there either)
Verdict_tickerscan(target, c, has_db, st, titles, urls, cache) ==
  IF SeenTitle("tickerscan", c.title, titles) THEN "seen_title"
  ELSE IF IsForeign(c.title) THEN "foreign"
  ELSE IF IsBlacklisted("tickerscan", target, c.title) THEN "blocklisted"
  ELSE IF FoundInDb(has_db, st, c.url) THEN "in_db"
  ELSE IF clean_url(c.url) \in urls
       THEN (IF clean_url(c.url) \in cache THEN "cached" ELSE "dup_url")
  ELSE "fetch"

Verdict(e, target, c, has_db, st, titles, urls, cache) ==
  CASE e = "macro" -> Verdict_macro(target, c, has_db, st, titles, urls, cache)
    [] e = "stocks" ->
         Verdict_stocks(target, c, has_db, st, titles, urls, cache)
    [] e = "company" ->
         Verdict_company(target, c, has_db, st, titles, urls, cache)
    [] e = "tickerscan" ->
         Verdict_tickerscan(target, c, has_db, st, titles, urls, cache)

\* the url a HIDDEN record is stored under
HiddenUrl(e, url) == IF e = "macro" THEN clean_url(url) ELSE url

\* does the engine store a HIDDEN record when a fetch raises
\* BlockedContentException
PersistsBlocked(e) == e # "tickerscan"

\* does the engine keep seen_urls
KeepsSeenUrls(e) == e # "company"

\* what fetch_yahoo_selenium can do:
\*   content         a dict with the extracted text
\*   placeholder     a "[Content Timeout]"-style dict (page-load timeout,
\*                   stuck redirect, no body): truthy, taken as content
\*   none            None
\*   dead            DeadDriverException
\*   blocked_source  BlockedContentException for a blocked publisher
\*   blocked_domain  BlockedContentException for a non-US Yahoo host
FetchOutcomes ==
  { "content", "placeholder", "none", "dead", "blocked_source",
    "blocked_domain" }

Truthy(outcome) == outcome \in { "content", "placeholder" }

IsBlocked(outcome) == outcome \in { "blocked_source", "blocked_domain" }

\* What can happen inside one fetch_yahoo_selenium call:
\*   nonus_before      the url's host is a non-US Yahoo host
\*   no_driver         driver is None
\*   nav_timeout       driver.get raises, "timeout"/"timed out" in the message
\*   nav_error         driver.get raises something else, the session answers
\*   nav_dead          driver.get raises something else, the session is gone
\*   page_timeout      after the navigation a WebDriver call raises with
\*                     "timed out"/"timeout" in the message
\*   page_fatal        ... with another of the fatal_triggers in the message
\*   page_error        ... with any other message
\*   nonus_after       the browser was redirected to a non-US Yahoo host
\*   stuck             the browser is still on google.com
\*   no_body           the page has no content element
\*   blocked_publisher the publisher is in BLOCKED_SOURCES
\*   no_text           no paragraph is left after cleaning
\*   text              the article text was extracted
FetchEvents ==
  { "nonus_before", "no_driver", "nav_timeout", "nav_error", "nav_dead",
    "page_timeout", "page_fatal", "page_error", "nonus_after", "stuck",
    "no_body", "blocked_publisher", "no_text", "text" }

\* Where the browser is when the call ends: nowhere it was sent by this call
\* ("none"), or on a host.
Hosts ==
  { "finance.yahoo.com", "uk.finance.yahoo.com", "news.google.com",
    "other" }

\* the hosts an event can leave the browser on: a failed driver.get and a
\* failing WebDriver call say nothing about the host; the code past the
\* final domain verification runs on a host that passed it
LandedHosts(ev) ==
  CASE ev \in { "nonus_before", "no_driver", "nav_dead" } -> { "none" }
    [] ev \in { "nav_timeout", "nav_error", "page_timeout", "page_fatal",
                "page_error" } -> Hosts
    [] ev = "nonus_after" -> { "uk.finance.yahoo.com" }
    [] ev = "stuck" -> { "news.google.com" }
    [] OTHER -> { "finance.yahoo.com", "other" }

\* the failures of the timeout class
TimeoutEvents == { "nav_timeout", "page_timeout" }

\* fetch_yahoo_selenium: what the call returns or raises
fetch_yahoo_selenium(ev) ==
  CASE ev = "nonus_before" -> "blocked_domain"
    [] ev = "no_driver" -> "none"
    [] ev = "nav_timeout" -> "placeholder"
    [] ev = "nav_error" -> "placeholder"
    [] ev = "nav_dead" -> "dead"
    [] ev = "page_timeout" -> "dead"
    [] ev = "page_fatal" -> "dead"
    [] ev = "page_error" -> "none"
    [] ev = "nonus_after" -> "blocked_domain"
    [] ev = "stuck" -> "placeholder"
    [] ev = "no_body" -> "placeholder"
    [] ev = "blocked_publisher" -> "blocked_source"
    [] ev = "no_text" -> "none"
    [] ev = "text" -> "content"

\* ---------------------------------------------------------------- state
\* ---------------------------------------------------- instants and dates
\* An instant is a number of minutes since 00:00 UTC of day 0, a date is a
\* day number; NoInstant stands for None.
DayMinutes == 1440
NoInstant == -1

\* how many days after day 0 the feed entries and windows reach
MaxDay == 2

\* datetime.date() of an instant
date_of_Up(t) == (t + DayMinutes - 1) \div DayMinutes
date_of(t) == t \div DayMinutes

\* the times of day the instants are drawn from: 00:00, 00:59, 01:00,
\* 01:01 and 12:00
DayMarks == { 0, 59, 60, 61, 720 }

InstantsOf(days) == { d * DayMinutes + m : d \in days, m \in DayMarks }

\* the date check an engine applies to a feed entry: TRUE when the entry
\* goes on to the filter cascade
DateCheck_macro(pub_dt, target_date, lookback_start) ==
  IF lookback_start # NoInstant
    THEN ~(pub_dt < lookback_start)
    ELSE date_of(pub_dt) = target_date

DateCheck_stocks(pub_dt, target_date) == date_of(pub_dt) = target_date

DateCheck_company(pub_dt, target_date, lookback_start, lookback_end) ==
  /\ (lookback_start # NoInstant) => ~(pub_dt < lookback_start)
  /\ (lookback_end # NoInstant) => ~(pub_dt > lookback_end)
  /\ (lookback_start = NoInstant /\ lookback_end = NoInstant)
       => date_of(pub_dt) = target_date

\* run_macro_scan takes lookback_start only, run_stocks_scan and
\* run_company_specific_scan take neither bound
DateCheck(e, pub_dt, target_date, lookback_start, lookback_end) ==
  CASE e = "macro" -> DateCheck_macro(pub_dt, target_date, lookback_start)
    [] e = "company" -> DateCheck_company(pub_dt, target_date,
                                          lookback_start, lookback_end)
    [] OTHER -> DateCheck_stocks(pub_dt, target_date)

\* ------------------------------------------------------- MarketCalendar
\* Dates are day numbers counted from 2026-01-01 (day 0, a Thursday); the
\* day before is -1, and so on.
\* how far into 2026 the dates and instants given to the calendar reach
MaxDate == 100

\* datetime.date.weekday(): Monday is 0, Sunday is 6
weekday(d) == (d + 3) % 7

\* Jan 1, Jan 19, Feb 16, Apr 3, May 25, Jun 19, Jul 3, Sep 7, Nov 26,
\* Dec 25
HOLIDAYS_2026 == { 0, 18, 46, 92, 144, 169, 183, 249, 329, 358 }

is_trading_day(d) ==
  IF weekday(d) >= 5 THEN FALSE
  ELSE IF d \in HOLIDAYS_2026 THEN FALSE
  ELSE TRUE

\* while not is_trading_day(curr): curr -= 1 day
RECURSIVE WalkBack(_)
WalkBack(curr) == IF is_trading_day(curr) THEN curr ELSE WalkBack(curr - 1)

\* while not is_trading_day(curr): curr += 1 day
RECURSIVE WalkOn(_)
WalkOn(curr) == IF is_trading_day(curr) THEN curr ELSE WalkOn(curr + 1)

get_prev_trading_day_Yesterday(d) == d - 1
get_prev_trading_day_Same(d) == WalkBack(d)
get_prev_trading_day(d) == WalkBack(d - 1)

get_next_trading_day_Tomorrow(d) == d + 1
get_next_trading_day(d) == WalkOn(d + 1)

get_current_or_prev_trading_day(d) == WalkBack(d)

\* the session anchor, 01:00 UTC, in minutes after midnight
AnchorMinutes == 60

\* the session of trading day T starts at the anchor of the day after the
\* trading day before T and ends at the anchor of the day after T
SessionStart(T) == (get_prev_trading_day(T) + 1) * DayMinutes + AnchorMinutes

SessionEnd(T) == (T + 1) * DayMinutes + AnchorMinutes

Earlier(a, b) == IF a < b THEN a ELSE b

\* the trading day a date belongs to: itself, or the next trading day
SessionDay(d) == IF is_trading_day(d) THEN d ELSE get_next_trading_day(d)

\* resolve_session_for_date(manual_date, now_utc): the end is capped at now
resolve_session_for_date(manual_date, now_utc) ==
  LET T == SessionDay(manual_date)
  IN  [ target_date |-> T,
        lookback_start |-> SessionStart(T),
        lookback_end |-> Earlier(SessionEnd(T), now_utc) ]

\* resolve_trading_session(now_utc): before the anchor the instant still
\* belongs to the day before
resolve_trading_session(now_utc) ==
  LET today == date_of(now_utc)
      ref == IF now_utc % DayMinutes < AnchorMinutes THEN today - 1 ELSE today
      T == SessionDay(ref)
  IN  [ target_date |-> T,
        lookback_start |-> SessionStart(T),
        lookback_end |-> Earlier(SessionEnd(T), now_utc) ]

\* ------------------------------------------------------- the hunt loop
\* main.py: MAX_HUNT_RUNS
MAX_HUNT_RUNS == 3

\* the steps of run_automation, in order
HuntPhases ==
  << "infisical", "db", "calendar", "macro", "stocks", "company", "report" >>

\* what a step can do: go through, record an error in report["errors"], or
\* raise.  The scans and the calendar sync sit in try/except blocks that
\* record the error; the session resolution before the Infisical check and
\* the heartbeat and report calls at the end are outside any try.
PhaseOutcomes(phase) ==
  CASE phase = "infisical" -> { "ok", "error", "raise" }
    [] phase = "report" -> { "ok", "raise" }
    [] phase \in { "macro", "stocks", "company" } -> { "ok", "found", "error" }
    [] OTHER -> { "ok", "error" }

\* the steps that call a scan engine
EnginePhases == { "macro", "stocks", "company" }

\* the steps that return the failure result at once
ReturnsEarly_Never(phase) == FALSE
ReturnsEarly(phase) == phase \in { "infisical", "db" }

\* the engine steps that begin with db.fetch_existing_titles_range and
\* db.fetch_cache_map; the company step passes the variables as they are
RereadsSeed(phase) == phase \in { "macro", "stocks" }

PhaseAfter(phase) ==
  HuntPhases[(CHOOSE i \in DOMAIN HuntPhases : HuntPhases[i] = phase) + 1]

\* "success": not report["errors"]
AttemptResult(errors) == IF errors = {} THEN "success" ELSE "errors"

\* except Exception: if run_num == MAX_HUNT_RUNS: ... sys.exit(1)
CrashIsFatal_Always(run_num) == run_num >= 1
CrashIsFatal(run_num) == run_num = MAX_HUNT_RUNS

VARIABLES
  file,         \* scan_state.json (scan_progress.py:5)
  pc,           \* where the engine process is: idle, launch, init, loop,
                \* body, cleanup, returned, dead
  eng,          \* the engine running
  target_names, \* the names the engine registers with start_new_scan
                \* (macro_engine.py:216)
  resume,       \* the remaining list handed to the engine on resume, or <<>>
                \* (resume_targets, macro_engine.py:224)
  targets,      \* the list the for loop iterates (macro_engine.py:233)
  idx,          \* index of the loop's current target
  pre,          \* history: the file when the engine was invoked
  started,      \* history: targets this run called mark_target_start on
  fetched,      \* history: targets whose feed this run requested
  done,         \* history: targets this run called mark_target_complete on
  exit,         \* history: how the run ended
  call,         \* history: the last ScanProgressManager call made directly
  store,        \* the articles table behind NewsDatabase
  has_db,       \* whether the run was given a db handle
  store0,       \* history: the store when the run was invoked
  cache_map,    \* keys of the cache_map argument
  seen_titles,  \* keys of seen_titles
  titles_dict,  \* whether seen_titles is a dict (run_stocks_scan starts
                \* from set() when existing_titles is empty or None)
  seen_urls,    \* seen_urls
  reports,      \* found_reports / all_final_reports
  submitted,    \* history: urls passed to db.insert_news in this run
  cur,          \* the feed entry at hand and what happened to it
  cpc,          \* where the candidate loop is: idle, pick, fetch
  items,        \* feed entries the runs have looked at so far
  drv,          \* the browser sessions of this run
  runs,         \* engine runs begun so far
  seeded,       \* existing_titles was read from the store for this run
  win,          \* the feed entry's date check: the window, the entry's
                \* pubDate and what the check decided
  cal,          \* the MarketCalendar call at hand and what it returned
  ttl,          \* the normalize_title call at hand and what it returned
  hunt,         \* main.py's hunt loop
  mgr,          \* the ScanProgressManager calls of two processes, step by step
  api           \* the MarketAux metadata request loop

vars == << file, pc, eng, target_names, resume, targets, idx, pre,
           started, fetched, done, exit, call,
           store, has_db, store0, cache_map, seen_titles, titles_dict,
           seen_urls, reports, submitted, cur, cpc, items, drv,
           runs, seeded, win, cal, ttl, hunt, mgr, api >>

\* the state of the functions followed on their own
utilvars == << win, cal, ttl, hunt, mgr, api >>

\* what the candidate pipeline adds to the state
scanvars == << store, has_db, store0, cache_map, seen_titles, titles_dict,
               seen_urls, reports, submitted, cur, cpc, items,
               drv, runs, seeded >>

runvars == << eng, target_names, resume, targets, idx, pre,
              started, fetched, done >>

\* the state of an engine run
progvars == << file, pc, runvars, exit, call, scanvars >>

\* call: the method last called directly; the scan_type it was given
\* (start_new_scan only); what the file was like before it (prior); whether
\* get_resume_info returned a dict (offered); whether mark_target_complete
\* was given a name already in completed_targets (again); and - about
\* the latest start_new_scan - the list it was given (since), whether only
\* mark_target_start, mark_target_complete and get_resume_info calls
\* followed it (fresh) and the names passed to mark_target_complete after
\* it (marked)
\* cur: the entry (c), the cascade's decision (verdict), the fetch attempts
\* made (attempts), the attempt at which BlockedContentException was raised
\* (blocked_at, 0 if none) and whether the entry was appended to the result
\* list (appended); for a fetch followed into the call, what happened in it
\* (event) and the host the browser was on when it ended (landed)
NoCand ==
  [ c |-> AllCandidates[1], verdict |-> "none", attempts |-> 0,
    blocked_at |-> 0, appended |-> FALSE, event |-> "none",
    landed |-> "none" ]

\* drv: how many sessions were launched (they are numbered 1, 2, ...), the
\* ones quit() or force_quit_driver() was called on (quit), the one the
\* driver variable holds (handle, 0 before the launch), whether that
\* session is usable (alive), whether a relaunch has failed during the
\* current target (lost) or during the run (failed) and whether a fetch
\* was attempted within the same target after a failed relaunch (late) or,
\* at any time of the run, with a session that quit() or
\* force_quit_driver() had already been called on (stale)
NoDriver ==
  [ launched |-> 0, quit |-> {}, handle |-> 0, alive |-> FALSE,
    lost |-> FALSE, failed |-> FALSE, late |-> FALSE, stale |-> FALSE ]

\* win: the engine (eng), its lookback_start, lookback_end and target_date
\* arguments, the pubDate of the feed entry at hand (pub_dt, NoInstant
\* before the first entry) and whether the entry got past the date check
NoWindow ==
  [ eng |-> "none", lookback_start |-> NoInstant, lookback_end |-> NoInstant,
    target_date |-> 0, pub_dt |-> NoInstant, passed |-> FALSE ]

\* cal: the function called (op), its date and now arguments, the session
\* returned by the resolve functions, and for the two walks chained, the
\* result of get_next_trading_day (next_td) and of get_prev_trading_day
\* applied to it (prev_td)
NoCal ==
  [ op |-> "none", date |-> 0, now |-> 0,
    target_date |-> 0, lookback_start |-> 0, lookback_end |-> 0,
    next_td |-> 0, prev_td |-> 0 ]

\* ttl: whether normalize_title was called, its argument (arg) and the
\* string returned: "" (out_empty) or a title (out)
NoTitleCall ==
  [ called |-> FALSE,
    arg |-> [ kind |-> "None", pad |-> FALSE,
              title |-> Title("", "Title", <<>>) ],
    out_empty |-> FALSE, out |-> Title("", "Title", <<>>) ]

\* hunt: the loop's run_num (0 before the first attempt), the step
\* run_automation is at ("idle" between attempts), report["errors"] of the
\* attempt as a set of step names, how the attempts so far ended (history:
\* success, errors or crash), and whether and with which status the process
\* has exited
\* and, of the attempt at hand or just ended, the engine steps entered
\* (scanned), how many of them brought articles (found) and the dict
\* run_automation returned (result; returned is FALSE until it does);
\* the engine steps that have committed an article to the store in this
\* attempt (articles), the ones whose articles the orchestrator's
\* existing_titles and cache variables cover (seed), and for every engine
\* call the seed it was given and the articles committed before it (seeds)
NoResult ==
  [ returned |-> FALSE, success |-> FALSE, articles_found |-> 0,
    errors |-> {} ]

NoHunt ==
  [ run_num |-> 0, phase |-> "idle", errors |-> {}, history |-> <<>>,
    exited |-> FALSE, code |-> 0,
    scanned |-> {}, found |-> 0, result |-> NoResult,
    articles |-> {}, seed |-> {}, seeds |-> {} ]

\* The processes that hold a ScanProgressManager on the same scan_state.json:
\* the engine run (main.py) and the dashboard (streamlit_app.py).
Procs == { "engine", "dash" }

\* One process's manager call: the method and its target, where the call is
\* (unborn: no manager constructed; idle; load: about to load_state; open:
\* about to open the file for writing; dump: file truncated, json.dump not
\* done; dead: the process died inside the call), the record it is about to
\* write, the file when the call began, whether no other process wrote the
\* file during the call, whether a finish_scan / clear_state of another
\* process completed during the call, and the calls made so far.
NoManager ==
  [ op |-> "none", target |-> None, pc |-> "unborn", state |-> DefaultState,
    before |-> MissingFile, alone |-> TRUE, cleared |-> FALSE, calls |-> 0 ]

NoManagers == [ p \in Procs |-> NoManager ]

\* api: a MarketAuxEngine and its _fetch_ticker_metadata call: where the
\* call is (none: no engine yet; ready: between calls; request: in the
\* while loop; page_end: after it), len(api_keys) (n), current_key_idx,
\* page, ticker_attempts, success, whether ticker_articles_found > 0
\* (found), the response to the last request (last) and current_key_idx
\* before that request (prev_idx)
NoApi ==
  [ pc |-> "none", n |-> 1, current_key_idx |-> 0, page |-> 1,
    ticker_attempts |-> 0, success |-> FALSE, found |-> FALSE,
    last |-> "none", prev_idx |-> 0 ]

\* the functions followed on their own, before any of them is called
UtilInit ==
  /\ win = NoWindow
  /\ cal = NoCal
  /\ ttl = NoTitleCall
  /\ hunt = NoHunt
  /\ mgr = NoManagers
  /\ api = NoApi

\* the pipeline state between runs (the store is kept)
ScanReset ==
  /\ has_db' = FALSE
  /\ store0' = {}
  /\ cache_map' = {}
  /\ seen_titles' = {}
  /\ titles_dict' = TRUE
  /\ seen_urls' = {}
  /\ reports' = <<>>
  /\ submitted' = {}
  /\ cur' = NoCand
  /\ cpc' = "idle"
  /\ drv' = NoDriver
  /\ seeded' = FALSE

NoCall ==
  [ op |-> "none", scan_type |-> None, prior |-> "missing",
    offered |-> FALSE, again |-> FALSE,
    since |-> <<>>, fresh |-> FALSE, marked |-> {} ]

Init ==
  /\ file = MissingFile
  /\ pc = "idle"
  /\ eng = "macro"
  /\ target_names = <<>>
  /\ resume = <<>>
  /\ targets = <<>>
  /\ idx = 1
  /\ pre = MissingFile
  /\ started = <<>>
  /\ fetched = <<>>
  /\ done = <<>>
  /\ exit = "none"
  /\ call = NoCall
  /\ store = {}
  /\ has_db = FALSE
  /\ store0 = {}
  /\ cache_map = {}
  /\ seen_titles = {}
  /\ titles_dict = TRUE
  /\ seen_urls = {}
  /\ reports = <<>>
  /\ submitted = {}
  /\ cur = NoCand
  /\ cpc = "idle"
  /\ items = 0
  /\ drv = NoDriver
  /\ runs = 0
  /\ seeded = FALSE
  /\ UtilInit

\* ------------------------------------------------------- engine actions
\* the arguments an orchestrator can pass to engine e for a new scan
NewScanNames(e) ==
  CASE e = "macro" ->
         { rss_targets(ev, sub) : ev \in SubSeqsOf(EventFeeds),
                                  sub \in SUBSET Range(MACRO_RSS_TARGETS) }
    [] e = "stocks" ->
         { active_targets(sub) : sub \in SUBSET Range(YAHOO_RSS_TARGETS) }
    [] e = "company" -> SubSeqsOf(TickerList)
    [] e = "tickerscan" -> SubSeqsOf(TickerList)

BeginRun(e, names, resume_targets) ==
  /\ pc = "idle"
  /\ pc' = "launch"
  /\ eng' = e
  /\ target_names' = names
  /\ resume' = resume_targets
  /\ targets' = <<>>
  /\ idx' = 1
  /\ pre' = file
  /\ started' = <<>>
  /\ fetched' = <<>>
  /\ done' = <<>>
  /\ exit' = "running"
  /\ UNCHANGED << file, call >>

Begin(e, names, resume_targets) ==
  BeginRun(e, names, resume_targets) /\ UNCHANGED << scanvars, utilvars >>

\* the run is over and its history is dropped: the next thing to happen is
\* a dashboard action or another engine run, possibly in a new process
ForgetRun ==
  /\ pc' = "idle"
  /\ eng' = "macro"
  /\ target_names' = <<>>
  /\ resume' = <<>>
  /\ targets' = <<>>
  /\ idx' = 1
  /\ pre' = MissingFile
  /\ started' = <<>>
  /\ fetched' = <<>>
  /\ done' = <<>>
  /\ exit' = "none"
  /\ UNCHANGED << file, call >>

Forget == ForgetRun /\ UNCHANGED << scanvars, utilvars >>

\* an orchestrator starts engine e on a target list of its choosing
InvokeNew(e) ==
  \E names \in NewScanNames(e) : Begin(e, names, <<>>)

\* the dashboard's Resume button: get_resume_info() offered a resume of this
\* engine's scan type, and the engine is started with the remaining list
\* (macro, stocks: resume_targets = remaining; company: ticker_list =
\* remaining)
InvokeResume(e) ==
  /\ resume_offered(file)
  /\ get_resume_info(file).type = ScanTypeOf(e)
  /\ LET rem == get_resume_info(file).remaining IN
     \E names \in (IF e = "company" THEN { rem } ELSE NewScanNames(e)) :
        Begin(e, names, rem)

\* get_selenium_driver succeeded
LaunchRun ==
  /\ pc = "launch"
  /\ pc' = "init"
  /\ UNCHANGED << file, runvars, exit, call >>

Launch == LaunchRun /\ UNCHANGED << scanvars, utilvars >>

\* get_selenium_driver raised: the engine logs and returns []
LaunchFails ==
  /\ pc = "launch"
  /\ pc' = "returned"
  /\ exit' = "launch_failed"
  /\ UNCHANGED << file, runvars, call >>
  /\ UNCHANGED << scanvars, utilvars >>

\* progress-manager init and the resume filter
TrackingInit ==
  /\ pc = "init"
  /\ file' = TrackingInitFile(file, eng, target_names, CHOOSE d \in Dates : TRUE)
  /\ targets' = ResumeFilter(eng, target_names, resume)
  /\ idx' = 1
  /\ pc' = "loop"
  /\ UNCHANGED << eng, target_names, resume, pre, started, fetched, done,
                  exit, call >>
  /\ UNCHANGED << scanvars, utilvars >>

\* top of the for loop: TRACKING START
MarkStart ==
  /\ pc = "loop"
  /\ idx <= Len(targets)
  /\ file' = mark_target_start(file, targets[idx])
  /\ started' = Append(started, targets[idx])
  /\ pc' = "body"
  /\ UNCHANGED << eng, target_names, resume, targets, idx, pre, fetched,
                  done, exit, call >>
  /\ UNCHANGED << scanvars, utilvars >>

\* the rest of the loop body for one target
BodyRun(outcome) ==
  /\ pc = "body"
  /\ fetched' = Append(fetched, targets[idx])
  /\ IF CompletesTarget(eng, outcome)
     THEN /\ file' = mark_target_complete(file, targets[idx])
          /\ done' = Append(done, targets[idx])
     ELSE UNCHANGED << file, done >>
  /\ IF AbortsLoop(eng, outcome)
     THEN pc' = "cleanup" /\ idx' = idx
     ELSE pc' = "loop" /\ idx' = idx + 1
  /\ UNCHANGED << eng, target_names, resume, targets, pre, started, exit,
                  call >>

Body(outcome) == BodyRun(outcome) /\ UNCHANGED << scanvars, utilvars >>

\* the for loop is exhausted
LoopEnd ==
  /\ pc = "loop"
  /\ idx > Len(targets)
  /\ pc' = "cleanup"
  /\ UNCHANGED << file, runvars, exit, call >>
  /\ UNCHANGED << scanvars, utilvars >>

\* the finally block, then return
CleanupRun ==
  /\ pc = "cleanup"
  /\ file' = IF FinishesScan(eng, targets) THEN finish_scan(file) ELSE file
  /\ pc' = "returned"
  /\ exit' = "returned"
  /\ UNCHANGED << runvars, call >>

Cleanup == CleanupRun /\ UNCHANGED << scanvars, utilvars >>

\* the process dies (kill, power loss, CI timeout) at any point of a run
Crash ==
  /\ pc \in { "launch", "init", "loop", "body", "cleanup" }
  /\ pc' = "dead"
  /\ exit' = "crash"
  /\ UNCHANGED << file, runvars, call >>
  /\ UNCHANGED << scanvars, utilvars >>

\* the engine has returned to its caller
Return ==
  /\ pc = "returned"
  /\ Forget

\* a new process is started after the crash
Restart ==
  /\ pc = "dead"
  /\ Forget

\* ---------------------------------------------------- dashboard actions
\* the dashboard renders: scan_pm.get_resume_info()
DashRender ==
  /\ pc = "idle"
  /\ file' = get_resume_info_file(file)
  /\ UNCHANGED << pc, runvars, exit, call >>
  /\ UNCHANGED << scanvars, utilvars >>

\* the Discard Progress button, shown when a resume is offered
DashDiscard ==
  /\ pc = "idle"
  /\ resume_offered(file)
  /\ file' = clear_state(file)
  /\ UNCHANGED << pc, runvars, exit, call >>
  /\ UNCHANGED << scanvars, utilvars >>

Next ==
  \/ \E e \in Engines : InvokeNew(e)
  \/ \E e \in Engines : InvokeResume(e)
  \/ Launch
  \/ LaunchFails
  \/ TrackingInit
  \/ MarkStart
  \/ \E o \in BodyOutcomes : Body(o)
  \/ LoopEnd
  \/ Cleanup
  \/ Crash
  \/ Return
  \/ Restart
  \/ DashRender
  \/ DashDiscard

Spec == Init /\ [][Next]_vars

\* the same, with run_company_specific_scan callable as well
InvokeTickerScan == InvokeNew("tickerscan")

NextLib == Next \/ InvokeTickerScan

SpecLib == Init /\ [][NextLib]_vars

\* --------------------------------------------- the candidate pipeline
\* One engine run followed entry by entry: the feed request, the filter
\* cascade, the retry loop around fetch_yahoo_selenium, the inserts into the
\* store and the browser sessions.  Entries outside the date window are
\* skipped by the engines before the cascade and are not drawn.

\* the full target list of engine e
ScanNames(e) ==
  CASE e = "macro" -> rss_targets(EventFeeds, {})
    [] e = "stocks" -> active_targets({})
    [] e = "company" -> TickerList
    [] e = "tickerscan" -> TickerList

\* an orchestrator starts engine e: with or without a db handle, with
\* existing_titles and cache_map either empty or read from the store
\* (main.py:280-284, streamlit_app.py:348-349)
ScanInvoke(e, db, seeded_titles, seeded_cache) ==
  /\ BeginRun(e, ScanNames(e), <<>>)
  /\ has_db' = db
  /\ store0' = store
  /\ cache_map' = IF seeded_cache THEN fetch_cache_map(store) ELSE {}
  /\ seen_titles' = IF seeded_titles THEN fetch_existing_titles(store) ELSE {}
  /\ titles_dict' = (e # "stocks" \/ seen_titles' # {})
  /\ seen_urls' = IF KeepsSeenUrls(e) THEN cache_map' ELSE {}
  /\ reports' = <<>>
  /\ submitted' = {}
  /\ cur' = NoCand
  /\ cpc' = "idle"
  /\ drv' = NoDriver
  /\ runs < MaxRuns
  /\ runs' = runs + 1
  /\ seeded' = seeded_titles
  /\ UNCHANGED << utilvars, store, items >>

\* get_selenium_driver succeeded: session 1
ScanLaunch ==
  /\ LaunchRun
  /\ drv' = [ drv EXCEPT !.launched = 1, !.handle = 1, !.alive = TRUE ]
  /\ UNCHANGED << utilvars, runs, seeded, store, has_db, store0, cache_map,
                  seen_titles,
                  titles_dict,
                  seen_urls, reports, submitted, cur, cpc, items >>

\* is the progress-manager set-up inside the try whose finally quits the
\* driver
SetupInsideTry(e) == e = "stocks"

\* ScanProgressManager() / load_state() / start_new_scan() raise OSError
\* (the state file cannot be read or written); the exception leaves the
\* engine
TrackingInitRaises ==
  /\ pc = "init"
  /\ pc' = "raised"
  /\ exit' = "raised"
  /\ drv' = IF SetupInsideTry(eng)
            THEN [ drv EXCEPT !.quit = @ \cup { drv.handle } ]
            ELSE drv
  /\ UNCHANGED << file, runvars, call >>
  /\ UNCHANGED << utilvars, runs, seeded, store, has_db, store0, cache_map,
                  seen_titles,
                  titles_dict,
                  seen_urls, reports, submitted, cur, cpc, items >>

\* the feed request returned nothing, or raised
ScanFeed(outcome) ==
  /\ cpc = "idle"
  /\ outcome \in { "empty", "error" }
  /\ BodyRun(outcome)
  /\ UNCHANGED << scanvars, utilvars >>

\* the feed request returned entries
ScanItems ==
  /\ pc = "body"
  /\ cpc = "idle"
  /\ cpc' = "pick"
  /\ UNCHANGED << file, pc, runvars, exit, call >>
  /\ UNCHANGED << utilvars, runs, seeded, store, has_db, store0, cache_map,
                  seen_titles,
                  titles_dict,
                  seen_urls, reports, submitted, cur, items, drv >>

CachedItem(c) == [ url |-> CacheKey(eng, c), title |-> c.title, kind |-> "cached" ]

ArticleItem(c) == [ url |-> c.url, title |-> c.title, kind |-> "article" ]

ManualItem(c) == [ url |-> c.url, title |-> c.title, kind |-> "manual" ]

\* the next feed entry goes through the cascade
Pick(c) ==
  /\ pc = "body"
  /\ cpc = "pick"
  /\ items < MaxItems
  /\ items' = items + 1
  /\ LET v == Verdict(eng, targets[idx], c, has_db, store, seen_titles,
                      seen_urls, cache_map)
         hides == v \in { "hidden_title", "hidden_url" } /\ has_db
         hidden == HiddenItem(c.title, HiddenUrl(eng, c.url))
         \* seen_titles[norm_title] = "New Session" on a set: TypeError,
         \* caught by the per-target handler
         raises == hides /\ ~titles_dict
     IN /\ store' = IF hides THEN insert_news(store, hidden) ELSE store
        /\ submitted' = IF hides THEN submitted \cup { hidden.url }
                        ELSE submitted
        /\ seen_titles' = IF hides /\ titles_dict
                          THEN seen_titles \cup { norm_title(c.title) }
                          ELSE seen_titles
        /\ seen_urls' = IF v = "fetch" /\ eng = "tickerscan"
                        THEN seen_urls \cup { clean_url(c.url) }
                        ELSE seen_urls
        /\ reports' = IF v = "cached" THEN Append(reports, CachedItem(c))
                      ELSE reports
        /\ cur' = [ c |-> c, verdict |-> v, attempts |-> 0,
                    blocked_at |-> 0, appended |-> v = "cached",
                    event |-> "none", landed |-> "none" ]
        /\ IF raises
           THEN /\ BodyRun("error")
                /\ cpc' = "idle"
           ELSE /\ cpc' = IF v = "fetch" THEN "fetch" ELSE "pick"
                /\ UNCHANGED << file, pc, runvars, exit, call >>
  /\ UNCHANGED << utilvars, runs, seeded, has_db, store0, cache_map, titles_dict, drv >>

\* one turn of the retry loop, and - when the loop is over - what the
\* engine does with the entry.  relaunch_ok: whether get_selenium_driver
\* succeeds after a DeadDriverException; relevant: the ticker is mentioned
\* in the title or the first lines (run_company_specific_scan only);
\* event: what happened inside the call, where that is followed
FetchRun(outcome, relaunch_ok, relevant, event, landed) ==
  /\ pc = "body"
  /\ cpc = "fetch"
  /\ cur.attempts < max_attempts(cur.c)
  /\ NonUsYahoo(cur.c.url) => outcome = "blocked_domain"
  /\ (~drv.alive /\ ~NonUsYahoo(cur.c.url)) => outcome = "dead"
  /\ outcome # "dead" => relaunch_ok
  /\ (outcome = "dead" /\ relaunch_ok) => drv.launched < MaxSessions
  /\ ~(eng = "tickerscan" /\ Truthy(outcome)) => relevant
  /\ LET c == cur.c
         n == cur.attempts + 1
         dead == outcome = "dead"
         \* stocks_engine.py calls get_selenium_driver() bare in the handler
         relaunch_raises ==
           dead /\ ~relaunch_ok /\ eng \in { "stocks", "tickerscan" }
         hides == IsBlocked(outcome) /\ has_db /\ PersistsBlocked(eng)
         hidden == HiddenItem(c.title, HiddenUrl(eng, c.url))
         assign_raises == hides /\ ~titles_dict
         over == \/ Truthy(outcome)
                 \/ IsBlocked(outcome)
                 \/ dead /\ ~relaunch_ok
                 \/ n = max_attempts(c)
         \* the driver variable still names a session that was quit, and
         \* the call gets as far as using it
         on_quit == drv.handle \in drv.quit /\ ~NonUsYahoo(c.url)
         drv1 == IF dead
                 THEN [ drv EXCEPT
                          !.quit = @ \cup { drv.handle },
                          !.launched = IF relaunch_ok THEN @ + 1 ELSE @,
                          !.handle = IF relaunch_ok THEN drv.launched + 1
                                     ELSE @,
                          !.alive = relaunch_ok,
                          !.lost = @ \/ ~relaunch_ok,
                          !.failed = @ \/ ~relaunch_ok,
                          !.late = @ \/ drv.lost,
                          !.stale = @ \/ on_quit ]
                 ELSE [ drv EXCEPT !.late = @ \/ drv.lost,
                                   !.stale = @ \/ on_quit ]
         concludes == over /\ ~relaunch_raises /\ ~assign_raises
         accepted ==
           /\ concludes
           /\ CASE eng = "macro" -> Truthy(outcome)
                [] eng = "stocks" -> Truthy(outcome)
                [] eng = "company" -> TRUE
                [] eng = "tickerscan" -> Truthy(outcome) /\ relevant
         \* run_stocks_scan's "MANUAL READ" fallback
         manual ==
           /\ concludes
           /\ eng = "stocks"
           /\ ~Truthy(outcome)
           /\ drv1.alive
           /\ outcome # "blocked_domain"
         store1 == IF hides THEN insert_news(store, hidden) ELSE store
         \* run_stocks_scan: seen_titles[norm_key] = ... on a set, after
         \* the insert and the append
         late_raise == accepted /\ eng = "stocks" /\ ~titles_dict
         raises == relaunch_raises \/ assign_raises \/ late_raise
     IN /\ store' = IF accepted /\ has_db
                    THEN insert_news(store1, NewsItem(c.title, c.url))
                    ELSE store1
        /\ submitted' = submitted
                          \cup (IF hides THEN { hidden.url } ELSE {})
                          \cup (IF accepted /\ has_db THEN { c.url } ELSE {})
        /\ seen_titles' =
             IF ~titles_dict THEN seen_titles
             ELSE seen_titles
                    \cup (IF hides THEN { norm_title(c.title) } ELSE {})
                    \cup (IF accepted /\ eng # "tickerscan"
                          THEN { norm_title(c.title), c.title } ELSE {})
        /\ seen_urls' = IF accepted /\ eng \in { "macro", "stocks" }
                        THEN seen_urls \cup { clean_url(c.url) }
                        ELSE seen_urls
        /\ reports' = IF accepted THEN Append(reports, ArticleItem(c))
                      ELSE IF manual THEN Append(reports, ManualItem(c))
                      ELSE reports
        /\ cur' = [ cur EXCEPT
                      !.attempts = n,
                      !.blocked_at = IF IsBlocked(outcome) THEN n ELSE @,
                      !.appended = accepted \/ manual,
                      !.event = event,
                      !.landed = landed ]
        /\ IF raises
           THEN /\ BodyRun("error")
                /\ cpc' = "idle"
                /\ drv' = [ drv1 EXCEPT !.lost = FALSE ]
                /\ UNCHANGED items
           ELSE /\ cpc' = IF over THEN "pick" ELSE "fetch"
                /\ drv' = drv1
                /\ UNCHANGED << items, file, pc, runvars, exit, call >>
  /\ UNCHANGED << utilvars, runs, seeded, has_db, store0, cache_map, titles_dict >>

\* the same, the outcome alone followed
Fetch(outcome, relaunch_ok, relevant) ==
  FetchRun(outcome, relaunch_ok, relevant, "none", "none")

\* the entries of the feed are used up: the end of the loop body
ScanEndItems ==
  /\ cpc = "pick"
  /\ BodyRun("processed")
  /\ cpc' = "idle"
  /\ drv' = [ drv EXCEPT !.lost = FALSE ]
  /\ UNCHANGED << utilvars, runs, seeded, store, has_db, store0, cache_map,
                  seen_titles,
                  titles_dict,
                  seen_urls, reports, submitted, cur, items >>

\* the finally block: driver.quit(), then what Cleanup does
ScanCleanup ==
  /\ CleanupRun
  /\ drv' = [ drv EXCEPT !.quit = @ \cup { drv.handle } ]
  /\ UNCHANGED << utilvars, runs, seeded, store, has_db, store0, cache_map,
                  seen_titles,
                  titles_dict,
                  seen_urls, reports, submitted, cur, cpc, items >>

\* the run is over (returned, raised or died); the store stays
ScanReturn ==
  /\ pc \in { "returned", "raised", "dead" }
  /\ ForgetRun
  /\ ScanReset
  /\ UNCHANGED << utilvars, store, runs, items >>

\* the value a run hands back, as the caller reads it (main.py:298-303):
\* the engines return a list, [] when the browser cannot be launched and
\* the result list otherwise; the launch failure goes to log_callback only
EngineResult ==
  [ is_dict |-> FALSE,
    articles |-> IF exit = "launch_failed" THEN <<>> ELSE reports,
    errors |-> <<>> ]

NextScan ==
  \/ \E e \in AllEngines, db, st, sc \in BOOLEAN : ScanInvoke(e, db, st, sc)
  \/ ScanLaunch
  \/ LaunchFails
  \/ TrackingInit
  \/ TrackingInitRaises
  \/ MarkStart
  \/ \E o \in BodyOutcomes : ScanFeed(o)
  \/ ScanItems
  \/ \E c \in CandidatePool : Pick(c)
  \/ \E o \in FetchOutcomes, ok, rel \in BOOLEAN : Fetch(o, ok, rel)
  \/ ScanEndItems
  \/ LoopEnd
  \/ ScanCleanup
  \/ ScanReturn

SpecScan == Init /\ [][NextScan]_vars

\* ------------------------------------------- inside fetch_yahoo_selenium
\* One engine run on an empty store, each fetch followed down to what
\* happened inside the call.
FetchInvoke(e, db) ==
  /\ runs = 0
  /\ ScanInvoke(e, db, FALSE, FALSE)

\* (the engines always hand over a driver object; with a session that is
\* gone driver.get raises and the current_url probe fails)
FetchCall(ev, relaunch_ok, relevant) ==
  /\ ev # "no_driver"
  /\ (ev = "nonus_before") <=> NonUsYahoo(cur.c.url)
  /\ (~drv.alive /\ ev # "nonus_before") => ev = "nav_dead"
  /\ \E host \in LandedHosts(ev) :
       FetchRun(fetch_yahoo_selenium(ev), relaunch_ok, relevant, ev, host)

NextFetch ==
  \/ \E e \in AllEngines, db \in BOOLEAN : FetchInvoke(e, db)
  \/ ScanLaunch
  \/ LaunchFails
  \/ TrackingInit
  \/ MarkStart
  \/ \E o \in BodyOutcomes : ScanFeed(o)
  \/ ScanItems
  \/ \E c \in CandidatePool : Pick(c)
  \/ \E ev \in FetchEvents, ok, rel \in BOOLEAN : FetchCall(ev, ok, rel)
  \/ ScanEndItems
  \/ LoopEnd
  \/ ScanCleanup
  \/ ScanReturn

SpecFetch == Init /\ [][NextFetch]_vars

\* ------------------------------------------------ MarketCalendar calls
\* The calendar's functions called one after the other with dates and
\* instants of the first MaxDate days of 2026.
CalDates == 0..MaxDate

CalInstants == InstantsOf(CalDates)

CalResolveNow ==
  /\ cal.op = "none"
  /\ \E now_utc \in CalInstants :
       LET s == resolve_trading_session(now_utc)
       IN  cal' = [ NoCal EXCEPT !.op = "resolve_trading_session",
                                 !.now = now_utc,
                                 !.target_date = s.target_date,
                                 !.lookback_start = s.lookback_start,
                                 !.lookback_end = s.lookback_end ]
  /\ UNCHANGED << progvars, win, ttl, hunt, mgr, api >>

CalResolveDate ==
  /\ cal.op = "none"
  /\ \E manual_date \in CalDates, now_utc \in CalInstants :
       LET s == resolve_session_for_date(manual_date, now_utc)
       IN  cal' = [ NoCal EXCEPT !.op = "resolve_session_for_date",
                                 !.date = manual_date,
                                 !.now = now_utc,
                                 !.target_date = s.target_date,
                                 !.lookback_start = s.lookback_start,
                                 !.lookback_end = s.lookback_end ]
  /\ UNCHANGED << progvars, win, ttl, hunt, mgr, api >>

\* get_prev_trading_day(get_next_trading_day(d))
CalWalk ==
  /\ cal.op = "none"
  /\ \E d \in CalDates :
       LET n == get_next_trading_day(d)
       IN  cal' = [ NoCal EXCEPT !.op = "walk", !.date = d, !.next_td = n,
                                 !.prev_td = get_prev_trading_day(n) ]
  /\ UNCHANGED << progvars, win, ttl, hunt, mgr, api >>

\* the caller has the result
CalReturn ==
  /\ cal.op # "none"
  /\ cal' = NoCal
  /\ UNCHANGED << progvars, win, ttl, hunt, mgr, api >>

NextCal ==
  \/ CalResolveNow
  \/ CalResolveDate
  \/ CalWalk
  \/ CalReturn

SpecCal == Init /\ [][NextCal]_vars

\* -------------------------------------------------- normalize_title calls
\* "if not title: return ''", then strip() and the suffix loop
TitleCall ==
  /\ ~ttl.called
  /\ \E arg \in TitleArgs :
       LET t == normalize_title(arg.title)
           empty == \/ arg.kind \in { "None", "empty", "blank" }
                    \/ t.base = "" /\ t.tail = <<>>
       IN  ttl' = [ called |-> TRUE, arg |-> arg, out_empty |-> empty,
                    out |-> IF empty THEN NoTitleCall.out ELSE t ]
  /\ UNCHANGED << progvars, win, cal, hunt, mgr, api >>

\* the caller has the result
TitleReturn ==
  /\ ttl.called
  /\ ttl' = NoTitleCall
  /\ UNCHANGED << progvars, win, cal, hunt, mgr, api >>

NextTitle ==
  \/ TitleCall
  \/ TitleReturn

SpecTitle == Init /\ [][NextTitle]_vars

\* ------------------------------------------------ main.py's hunt loop
\* for run_num in range(1, MAX_HUNT_RUNS + 1): run_automation is entered
HuntAttempt ==
  /\ ~hunt.exited
  /\ hunt.phase = "idle"
  /\ hunt.run_num < MAX_HUNT_RUNS
  /\ hunt' = [ hunt EXCEPT !.run_num = @ + 1, !.phase = HuntPhases[1],
                           !.errors = {}, !.scanned = {}, !.found = 0,
                           !.result = NoResult,
                           !.articles = {}, !.seed = {}, !.seeds = {} ]
  /\ UNCHANGED << progvars, win, cal, ttl, mgr, api >>

\* run_automation returned: break on success, otherwise cool down and go
\* on; after the last attempt the loop ends and os._exit(0) is reached
HuntCompleted(h, errors, found) ==
  LET result == AttemptResult(errors)
      over == result = "success" \/ h.run_num = MAX_HUNT_RUNS
  IN  [ h EXCEPT !.phase = "idle", !.errors = errors,
                 !.history = Append(@, result),
                 !.exited = over, !.code = 0,
                 !.result = [ returned |-> TRUE,
                              success |-> result = "success",
                              articles_found |-> found,
                              errors |-> errors ] ]

\* run_automation raised: the last attempt ends in sys.exit(1), an earlier
\* one in a cooldown
HuntCrashed(h) ==
  [ h EXCEPT !.phase = "idle",
             !.history = Append(@, "crash"),
             !.exited = CrashIsFatal(h.run_num),
             !.code = IF CrashIsFatal(h.run_num) THEN 1 ELSE 0 ]

\* one step of run_automation, and what the loop does when the step ends
\* the attempt
HuntStep ==
  /\ ~hunt.exited
  /\ hunt.phase # "idle"
  /\ \E outcome \in PhaseOutcomes(hunt.phase) :
       LET errors == IF outcome = "error"
                       THEN hunt.errors \cup { hunt.phase }
                       ELSE hunt.errors
           seed == IF RereadsSeed(hunt.phase) THEN hunt.articles
                   ELSE hunt.seed
           h == [ hunt EXCEPT
                    !.scanned = IF hunt.phase \in EnginePhases
                                  THEN @ \cup { hunt.phase } ELSE @,
                    !.found = IF outcome = "found" THEN @ + 1 ELSE @,
                    !.seed = seed,
                    !.seeds = IF hunt.phase \in EnginePhases
                                THEN @ \cup { [ phase |-> hunt.phase,
                                                seed |-> seed,
                                                articles |-> hunt.articles ] }
                                ELSE @,
                    !.articles = IF outcome = "found"
                                   THEN @ \cup { hunt.phase } ELSE @ ]
       IN  hunt' =
             IF outcome = "raise" THEN HuntCrashed(h)
             ELSE IF outcome = "error" /\ ReturnsEarly(h.phase)
               THEN HuntCompleted(h, errors, 0)
             ELSE IF h.phase = "report"
               THEN HuntCompleted(h, errors, h.found)
             ELSE [ h EXCEPT !.phase = PhaseAfter(h.phase),
                             !.errors = errors ]
  /\ UNCHANGED << progvars, win, cal, ttl, mgr, api >>

NextHunt ==
  \/ HuntAttempt
  \/ HuntStep

SpecHunt == Init /\ [][NextHunt]_vars

\* ------------------------------------------------- the feed's date check
\* The engines' date check followed on its own: an engine is called with a
\* target date and a lookback window and meets feed entries one by one.
WindowInstants == InstantsOf(0..MaxDay)

\* the engine is called; main.py passes the session's window
WindowOpen ==
  /\ win.eng = "none"
  /\ \E e \in AllEngines, target_date \in 0..MaxDay,
        lookback_start \in WindowInstants \cup { NoInstant },
        lookback_end \in WindowInstants \cup { NoInstant } :
       /\ (lookback_start # NoInstant /\ lookback_end # NoInstant)
            => lookback_start < lookback_end
       /\ win' = [ NoWindow EXCEPT !.eng = e, !.target_date = target_date,
                                   !.lookback_start = lookback_start,
                                   !.lookback_end = lookback_end ]
  /\ UNCHANGED << progvars, cal, ttl, hunt, mgr, api >>

\* a feed entry's pubDate is parsed and checked
WindowEntry ==
  /\ win.eng # "none"
  /\ \E pub_dt \in WindowInstants :
       win' = [ win EXCEPT
                  !.pub_dt = pub_dt,
                  !.passed = DateCheck(win.eng, pub_dt, win.target_date,
                                       win.lookback_start,
                                       win.lookback_end) ]
  /\ UNCHANGED << progvars, cal, ttl, hunt, mgr, api >>

\* the engine returns
WindowClose ==
  /\ win.eng # "none"
  /\ win' = NoWindow
  /\ UNCHANGED << progvars, cal, ttl, hunt, mgr, api >>

NextWindow ==
  \/ WindowOpen
  \/ WindowEntry
  \/ WindowClose

SpecWindow == Init /\ [][NextWindow]_vars


\* ------------------------------------------- the manager called directly
\* What a direct caller (the unit tests, the dashboard) passes.
ScanTypes == { "MACRO", "STOCKS", "COMPANY" }
ApiNames == SubSeq(TickerPool, 1, MaxApiTargets)
ApiTargetLists == SeqsOver(Range(ApiNames))
ApiTargets == Range(ApiNames) \cup { MacroNamePool[1] }

InitApi ==
  /\ file \in { MissingFile, CorruptFile, util_save_state(DefaultState) }
  /\ pc = "idle"
  /\ eng = "macro"
  /\ target_names = <<>>
  /\ resume = <<>>
  /\ targets = <<>>
  /\ idx = 1
  /\ pre = MissingFile
  /\ started = <<>>
  /\ fetched = <<>>
  /\ done = <<>>
  /\ exit = "none"
  /\ call = NoCall
  /\ store = {}
  /\ has_db = FALSE
  /\ store0 = {}
  /\ cache_map = {}
  /\ seen_titles = {}
  /\ titles_dict = TRUE
  /\ seen_urls = {}
  /\ reports = <<>>
  /\ submitted = {}
  /\ cur = NoCand
  /\ cpc = "idle"
  /\ items = 0
  /\ drv = NoDriver
  /\ runs = 0
  /\ seeded = FALSE
  /\ UtilInit

\* what kind of file a call found
PriorOf(f) ==
  CASE f.disk # "ok" -> f.disk
    [] ~f.data.active_scan -> "inactive"
    [] f.data.completed_targets = <<>> -> "active"
    [] remaining(f.data) = <<>> -> "active_complete"
    [] OTHER -> "active_partial"

Called(op) ==
  [ call EXCEPT !.op = op, !.scan_type = None, !.prior = PriorOf(file),
                !.offered = FALSE, !.again = FALSE ]

\* ScanProgressManager(): the constructor
ApiConstruct ==
  /\ file' = ensure_file(file)
  /\ call' = Called("init")
  /\ UNCHANGED << pc, runvars, exit >>
  /\ UNCHANGED << scanvars, utilvars >>

ApiStartNewScan(scan_type, target_list, date) ==
  /\ file' = start_new_scan(scan_type, target_list, date)
  /\ call' = [ Called("start_new_scan") EXCEPT
                 !.scan_type = scan_type, !.since = target_list,
                 !.fresh = TRUE, !.marked = {} ]
  /\ UNCHANGED << pc, runvars, exit >>
  /\ UNCHANGED << scanvars, utilvars >>

ApiMarkTargetStart(target) ==
  /\ file' = mark_target_start(file, target)
  /\ call' = Called("mark_target_start")
  /\ UNCHANGED << pc, runvars, exit >>
  /\ UNCHANGED << scanvars, utilvars >>

ApiMarkTargetComplete(target) ==
  /\ file' = mark_target_complete(file, target)
  /\ call' = [ Called("mark_target_complete") EXCEPT
                 !.again = /\ load_state(file).active_scan
                           /\ In(target, load_state(file).completed_targets),
                 !.marked = IF call.fresh THEN @ \cup { target } ELSE @ ]
  /\ UNCHANGED << pc, runvars, exit >>
  /\ UNCHANGED << scanvars, utilvars >>

ApiFinishScan ==
  /\ file' = finish_scan(file)
  /\ call' = [ Called("finish_scan") EXCEPT
                 !.since = <<>>, !.fresh = FALSE, !.marked = {} ]
  /\ UNCHANGED << pc, runvars, exit >>
  /\ UNCHANGED << scanvars, utilvars >>

ApiGetResumeInfo ==
  /\ file' = get_resume_info_file(file)
  /\ call' = [ Called("get_resume_info") EXCEPT
                 !.offered = resume_offered(file) ]
  /\ UNCHANGED << pc, runvars, exit >>
  /\ UNCHANGED << scanvars, utilvars >>

ApiClearState ==
  /\ file' = clear_state(file)
  /\ call' = [ Called("clear_state") EXCEPT
                 !.since = <<>>, !.fresh = FALSE, !.marked = {} ]
  /\ UNCHANGED << pc, runvars, exit >>
  /\ UNCHANGED << scanvars, utilvars >>

NextApi ==
  \/ ApiConstruct
  \/ \E ty \in ScanTypes, tl \in ApiTargetLists, d \in Dates :
        ApiStartNewScan(ty, tl, d)
  \/ \E t \in ApiTargets : ApiMarkTargetStart(t)
  \/ \E t \in ApiTargets : ApiMarkTargetComplete(t)
  \/ ApiFinishScan
  \/ ApiGetResumeInfo
  \/ ApiClearState

SpecApi == InitApi /\ [][NextApi]_vars

\* ================================================================ claims
\* the record a reader of the file gets
Persisted == load_state(file)

\* the run returned to its caller after iterating its list (no launch failure)
ReturnedNormally == pc = "returned" /\ exit = "returned"

\* the loop is about to start: tracking init and the resume filter are done
AfterTrackingInit == pc = "loop" /\ idx = 1 /\ started = <<>>

\* r lists exactly the elements of t that are not in c, in t's order
IsOrderedRest(r, t, c) ==
  /\ NoDup(r)
  /\ Range(r) = Range(t) \ Range(c)
  /\ \A a, b \in DOMAIN r :
       a < b => \E p, q \in DOMAIN t : p < q /\ t[p] = r[a] /\ t[q] = r[b]

\* C1: in every persisted state the engines and the dashboard can produce,
\* every element of completed_targets is an element of total_targets.
C1_CompletedWithinTotal ==
  Range(Persisted.completed_targets) \subseteq Range(Persisted.total_targets)

\* C2: when the process running a new scan over n targets dies after
\* marking k < n of them complete, get_resume_info offers exactly the n-k
\* uncompleted targets with completed_count = k; and a run started from a
\* resume offer never calls mark_target_start on, nor requests the feed of,
\* a target that was already completed.
C2_CrashThenResume ==
  /\ ( pc = "dead" /\ resume = <<>> /\ started # <<>>
       /\ Len(done) < Len(target_names) )
     => /\ resume_offered(file)
        /\ get_resume_info(file).remaining
             = KeepOut(target_names, Range(done))
        /\ get_resume_info(file).completed_count = Len(done)
  /\ resume # <<>>
     => /\ Range(started) \cap Range(load_state(pre).completed_targets) = {}
        /\ Range(fetched) \cap Range(load_state(pre).completed_targets) = {}

\* C3: when an engine run over a non-empty target list returns normally,
\* the persisted state is inactive.
C3_InactiveAfterReturn ==
  (ReturnedNormally /\ targets # <<>>) => ~Persisted.active_scan

\* C4: when an engine begins a new scan (no resume targets) while the
\* persisted state is still active, the state is overwritten: scan_type and
\* total_targets are the new scan's and completed_targets is empty.
C4_NewScanOverwrites ==
  (AfterTrackingInit /\ resume = <<>> /\ load_state(pre).active_scan)
  => /\ Persisted.active_scan
     /\ Persisted.scan_type = ScanTypeOf(eng)
     /\ Persisted.total_targets = target_names
     /\ Persisted.completed_targets = <<>>

\* C5: after start_new_scan(targets) followed only by mark_target_start and
\* mark_target_complete calls that include mark_target_complete for every
\* target, get_resume_info returns nothing and leaves the state inactive.
C5_AllCompleteNoResume ==
  ( call.op = "get_resume_info" /\ call.fresh
    /\ Range(call.since) \subseteq call.marked )
  => ~call.offered /\ ~Persisted.active_scan

C5_Witness ==
  /\ call.op = "get_resume_info" /\ call.fresh
  /\ Len(call.since) = MaxApiTargets
  /\ Range(call.since) \subseteq call.marked
  /\ call.prior = "active_complete"

\* C6: whenever get_resume_info returns a result, remaining is exactly the
\* targets of total_targets not in completed_targets, in total_targets
\* order, and completed_count + len(remaining) = total_count.
C6_RemainingExact ==
  (pc = "idle" /\ resume_offered(file))
  => LET info == get_resume_info(file) IN
     /\ IsOrderedRest(info.remaining, Persisted.total_targets,
                      Persisted.completed_targets)
     /\ info.completed_count + Len(info.remaining) = info.total_count

\* C7 as claimed: an engine restarted from a resume offer processes exactly
\* the resume targets, in their total_targets order.
C7_ResumeProcessesAll ==
  (ReturnedNormally /\ resume # <<>>) => started = resume

\* C7 as amended: an engine restarted from a resume offer processes exactly
\* those resume targets that are in the target list of this invocation
\* (its table, injected feeds and target_subset), in the relative order
\* they have in total_targets.
C7_ResumeProcessesListed ==
  (ReturnedNormally /\ resume # <<>>)
  => started = KeepIn(resume, Range(target_names))

C7_Witness ==
  /\ ReturnedNormally /\ resume # <<>>
  /\ load_state(pre).completed_targets # <<>>
  /\ started # <<>>
  /\ Len(resume) > Len(started)

\* C8: an engine invocation that ends before any target is attempted (the
\* browser launch failed, or the iterated list was empty) leaves a prior
\* active state untouched.
C8_AbortKeepsState ==
  (pc = "returned" /\ started = <<>> /\ load_state(pre).active_scan)
  => file = pre

C8_Witness ==
  /\ ReturnedNormally /\ started = <<>>
  /\ load_state(pre).active_scan
  /\ load_state(pre).completed_targets # <<>>
  /\ target_names # <<>>

\* C9: start_new_scan(type, targets, date), from any prior file (missing,
\* unreadable, inactive, active with progress), leaves the state active
\* with scan_type = type, total_targets = targets, completed_targets empty
\* and current_target unset.
C9_StartNewScanResets ==
  call.op = "start_new_scan"
  => /\ file.disk = "ok"
     /\ Persisted.active_scan
     /\ Persisted.scan_type = call.scan_type
     /\ Persisted.total_targets = call.since
     /\ Persisted.completed_targets = <<>>
     /\ Persisted.current_target = None

C9_Witness ==
  /\ call.op = "start_new_scan"
  /\ call.prior = "active_partial"
  /\ Persisted.total_targets # <<>>

\* C10: when no scan is active, mark_target_start(name) and
\* mark_target_complete(name) leave the persisted record as it was (a
\* readable file is left as it is; an unreadable or missing one is
\* rewritten to the default record it already read as).
C10_MarkIsNoopWhenInactive ==
  [][ ( call'.op \in { "mark_target_start", "mark_target_complete" }
        /\ ~load_state(file).active_scan )
      => /\ load_state(file') = load_state(file)
         /\ file.disk = "ok" => file' = file ]_vars

C10_Witness ==
  /\ call.op = "mark_target_complete"
  /\ call.prior = "inactive"
  /\ ~Persisted.active_scan
  /\ Persisted.total_targets # <<>>
  /\ Len(Persisted.completed_targets) < Len(Persisted.total_targets)

\* C11: completed_targets never holds a name twice, and calling
\* mark_target_complete(name) a second time leaves the file as the first
\* call left it.
C11_MarkCompleteIdempotent ==
  /\ NoDup(Persisted.completed_targets)
  /\ \A t \in ApiTargets :
       mark_target_complete(mark_target_complete(file, t), t)
         = mark_target_complete(file, t)

C11_Witness ==
  /\ call.op = "mark_target_complete" /\ call.again
  /\ Persisted.active_scan
  /\ Len(Persisted.completed_targets) = 1

\* C12: with a db handle, whenever the engine stands between two feed
\* entries, every item of the result list has been handed to insert_news
\* (or was served from the cache of stored articles): the accumulated
\* articles are never ahead of the persisted ones.
C12_AppendedArePersisted ==
  (has_db /\ cpc # "fetch")
  => \A i \in DOMAIN reports :
       reports[i].kind = "cached" \/ reports[i].url \in submitted

\* does the title name an entry of BLOCKED_SOURCES
TitleNamesBlockedSource(title) ==
  \E bad \in BLOCKED_SOURCES : Contains(title, bad)

HiddenRecordsOf(title) ==
  { a \in store : a.category = "HIDDEN" /\ a.title = title }

\* C13: once a feed entry whose title names a blocked source has been dealt
\* with - in a first run or in a repeated one - it is not among the
\* returned articles, and with a db handle the store holds exactly one
\* HIDDEN record for it.
C13_BlockedTitleHiddenOnce ==
  ( cur.verdict # "none" /\ cpc # "fetch"
    /\ TitleNamesBlockedSource(cur.c.title) )
  => /\ \A i \in DOMAIN reports : reports[i].title # cur.c.title
     /\ has_db => Cardinality(HiddenRecordsOf(cur.c.title)) = 1

\* C14: when a fetch of a feed entry raised BlockedContentException, in any
\* engine, that fetch was the entry's last one (premium or not), the entry
\* is not appended to the result list, and with a db handle the store
\* holds exactly one HIDDEN record for it.
C14_BlockedFetchHiddenOnce ==
  cur.blocked_at > 0
  => /\ cur.attempts = cur.blocked_at
     /\ ~cur.appended
     /\ has_db => Cardinality(HiddenRecordsOf(cur.c.title)) = 1

\* C15: in a run seeded with the existing-titles map of the articles stored
\* before it, no record is inserted whose normalized title equals that of
\* an article stored before the run, whatever its url.
C15_SeededTitlesNotInserted ==
  seeded
  => \A a \in store \ store0 :
       norm_title(a.title) \notin fetch_existing_titles(store0)

C15_Witness ==
  /\ seeded
  /\ runs = 2
  /\ cur.verdict = "seen_title"
  /\ \E a \in store0 :
       /\ norm_title(a.title) = norm_title(cur.c.title)
       /\ a.title # cur.c.title
  /\ ~article_exists(store0, cur.c.url)
  /\ ~article_exists(store0, clean_url(cur.c.url))
  /\ store = store0

\* C16: the number of fetch attempts made for one feed entry is at most 1
\* when is_premium_source is false for it and at most 2 when it is true.
C16_AttemptBudget ==
  cur.attempts <= (IF is_premium_source(cur.c.title, cur.c.url) THEN 2 ELSE 1)

C16_Witness ==
  /\ cur.verdict = "fetch"
  /\ cpc = "pick"
  /\ is_premium_source(cur.c.title, cur.c.url)
  /\ cur.attempts = 2
  /\ ~cur.appended

\* C17: whatever targets raise an exception in their loop body, an engine
\* run that gets into its loop and returns has called mark_target_start on
\* every target of its list, in list order: a failing target never ends
\* the loop early.
C17_FailingTargetGoesOn ==
  ReturnedNormally => started = targets

\* C18: in run_macro_scan, run_stocks_scan and run_company_scan, once the
\* relaunch after a DeadDriverException has failed no fetch is made for a
\* later entry of the same target, and the run still calls
\* mark_target_start on every target of its list.
C18_DeadSessionAbortsTarget ==
  eng \in Engines
  => /\ ~drv.late
     /\ (ReturnedNormally /\ drv.failed) => started = targets

\* C19: when an engine run that launched a browser session is over - it
\* returned, or an exception left it - quit or force-quit has been called
\* on every session the run launched.
C19_SessionsTornDown ==
  (pc \in { "returned", "raised" } /\ drv.launched > 0)
  => \A h \in 1 .. drv.launched : h \in drv.quit

\* C20: in every engine, a feed entry that has passed the filters standing
\* before the url checks and whose url is a key of the cache map the run
\* was seeded with is accepted - the cached article is appended to the
\* returned list - and no fetch is made for it.
C20_CacheHitAccepted ==
  ( cur.verdict \in { "dup_url", "cached", "fetch" }
    /\ CacheKey(eng, cur.c) \in cache_map )
  => /\ cur.verdict = "cached"
     /\ cur.appended
     /\ cur.attempts = 0

\* C21: a failure of the timeout class inside a fetch does not leave
\* fetch_yahoo_selenium as an exception: the call returns the placeholder,
\* and the engine takes the placeholder as the entry's content without
\* fetching again, premium source or not.
C21_TimeoutIsSoft ==
  cur.event \in TimeoutEvents
  => /\ fetch_yahoo_selenium(cur.event) = "placeholder"
     /\ cpc # "fetch"
     /\ cur.appended \/ eng = "tickerscan"

\* C22: under an active lookback window, an entry that gets past an
\* engine's date check was published inside [lookback_start, lookback_end).
C22_OnlyWindowAccepted ==
  (/\ win.lookback_start # NoInstant
   /\ win.lookback_end # NoInstant
   /\ win.passed)
  => /\ win.lookback_start <= win.pub_dt
     /\ win.pub_dt < win.lookback_end

\* C23: an engine run never ends in an exception and hands back a record
\* with articles and errors; when the browser cannot be launched the
\* articles are empty and the errors are not.
C23_ReturnsRecord ==
  /\ pc # "raised"
  /\ pc = "returned" => EngineResult.is_dict
  /\ (pc = "returned" /\ exit = "launch_failed")
       => /\ EngineResult.articles = <<>>
          /\ EngineResult.errors # <<>>

\* a resolve function has returned a session
SessionReturned ==
  cal.op \in { "resolve_trading_session", "resolve_session_for_date" }

\* p is the last trading day before date d
IsLastTradingBefore(p, d) ==
  /\ p < d
  /\ is_trading_day(p)
  /\ \A q \in (p + 1)..(d - 1) : ~is_trading_day(q)

\* 01:00 UTC of the day after the last trading day before d
StartAfterLastTradingBefore(d) ==
  LET p == CHOOSE x \in (d - 14)..(d - 1) : IsLastTradingBefore(x, d)
  IN  (p + 1) * DayMinutes + AnchorMinutes

\* C24: every session the resolve functions return, for any date and any
\* now, has lookback_start < lookback_end.
C24_WindowNotEmpty ==
  SessionReturned => cal.lookback_start < cal.lookback_end

\* C25 as stated: lookback_start is at 01:00 UTC of a date that is a
\* trading day.
C25_StartOnTradingDay ==
  SessionReturned
  => /\ cal.lookback_start % DayMinutes = AnchorMinutes
     /\ is_trading_day(date_of(cal.lookback_start))

\* C25: lookback_start is at 01:00 UTC of the date that follows the last
\* trading day before target_date (a Saturday for a Monday session).
C25_StartAfterTradingDay ==
  SessionReturned
  => /\ cal.lookback_start % DayMinutes = AnchorMinutes
     /\ IsLastTradingBefore(date_of(cal.lookback_start) - 1, cal.target_date)

C25_Witness ==
  /\ SessionReturned
  /\ ~is_trading_day(date_of(cal.lookback_start))

\* C26: for a trading day D, every now in [D 01:00, D+1 01:00) resolves to
\* target_date D with the one lookback_start of D's session; so 01:00
\* belongs to D, and 00:59 of the next day still does.
C26_OneSessionPerTradingDay ==
  cal.op = "resolve_trading_session"
  => \A D \in (-1)..MaxDate :
       (/\ is_trading_day(D)
        /\ D * DayMinutes + AnchorMinutes <= cal.now
        /\ cal.now < (D + 1) * DayMinutes + AnchorMinutes)
       => /\ cal.target_date = D
          /\ cal.lookback_start = StartAfterLastTradingBefore(D)

C26_Witness ==
  /\ cal.op = "resolve_trading_session"
  /\ cal.now % DayMinutes = AnchorMinutes - 1
  /\ is_trading_day(cal.now \div DayMinutes)
  /\ cal.target_date = (cal.now \div DayMinutes) - 1

\* C27: resolve_session_for_date maps every date of a run of non-trading
\* dates before trading day T, and T itself, to target_date T and to
\* 01:00 UTC of the day after the last trading day before T, whatever now
\* is.
C27_RunSharesSession ==
  cal.op = "resolve_session_for_date"
  => \A T \in cal.date..(cal.date + 14) :
       (/\ is_trading_day(T)
        /\ \A q \in cal.date..(T - 1) : ~is_trading_day(q))
       => /\ cal.target_date = T
          /\ cal.lookback_start = StartAfterLastTradingBefore(T)

C27_Witness ==
  /\ cal.op = "resolve_session_for_date"
  /\ ~is_trading_day(cal.date)
  /\ cal.target_date = cal.date + 3
  /\ cal.now < cal.lookback_start

\* C28 as stated: get_prev_trading_day(get_next_trading_day(d)) is a
\* trading day and the last trading day at or before
\* get_next_trading_day(d).
C28_PrevOfNextAtOrBefore ==
  cal.op = "walk"
  => /\ is_trading_day(cal.prev_td)
     /\ IsLastTradingBefore(cal.prev_td, cal.next_td + 1)

\* C28: get_prev_trading_day(get_next_trading_day(d)) is the last trading
\* day strictly before get_next_trading_day(d), which is the last trading
\* day at or before d; no trading day lies between the two results.
C28_PrevOfNextIsBefore ==
  cal.op = "walk"
  => /\ is_trading_day(cal.next_td)
     /\ cal.date < cal.next_td
     /\ IsLastTradingBefore(cal.prev_td, cal.next_td)
     /\ cal.prev_td <= cal.date

C28_Witness ==
  /\ cal.op = "walk"
  /\ cal.prev_td < cal.date
  /\ cal.date + 1 < cal.next_td

\* C29: normalize_title removes at most one known suffix, the last part of
\* the title, and nothing when the last part is no known suffix (another
\* source, another letter case); None and "" give "".
C29_AtMostOneSuffix ==
  ttl.called
  => LET given == ttl.arg.title.tail
         known == given # <<>> /\ given[Len(given)] \in Range(Suffixes)
     IN  IF ttl.arg.kind \in { "None", "empty" } THEN ttl.out_empty
         ELSE IF ttl.arg.kind = "blank" THEN TRUE
         ELSE IF ttl.out_empty
           THEN ttl.arg.title.base = "" /\ Len(given) <= 1 /\ known
         ELSE /\ ttl.out.base = ttl.arg.title.base
              /\ \/ ttl.out.tail = given
                 \/ known /\ ttl.out.tail = SubSeq(given, 1, Len(given) - 1)
              /\ ~known => ttl.out.tail = given

\* C30: the hunt loop makes at most MAX_HUNT_RUNS attempts and none after a
\* success; once the process has exited, the status is 0 when the last
\* attempt ran to completion, with or without errors, and non-zero only
\* when the last of the MAX_HUNT_RUNS attempts crashed.
C30_ExitStatus ==
  LET n == Len(hunt.history)
  IN  /\ hunt.run_num <= MAX_HUNT_RUNS
      /\ n <= MAX_HUNT_RUNS
      /\ \A i \in 1..n : hunt.history[i] = "success" => (i = n /\ hunt.exited)
      /\ hunt.exited
           => /\ n > 0
              /\ hunt.history[n] \in { "success", "errors" } => hunt.code = 0
              /\ hunt.code # 0
                   => (hunt.history[n] = "crash" /\ n = MAX_HUNT_RUNS)

C30_Witness ==
  /\ hunt.exited
  /\ hunt.code = 0
  /\ hunt.history = << "crash", "crash", "errors" >>

\* C31: an attempt in which the secrets provider is not connected or the
\* news database is unavailable returns success = false, articles_found = 0
\* and a non-empty errors list, and no scan engine was called in it.
C31_EarlyFailureNoScan ==
  (/\ hunt.result.returned
   /\ hunt.result.errors \cap { "infisical", "db" } # {})
  => /\ ~hunt.result.success
     /\ hunt.result.articles_found = 0
     /\ hunt.result.errors # {}
     /\ hunt.scanned = {}

C31_Witness ==
  /\ hunt.result.returned
  /\ "db" \in hunt.result.errors
  /\ hunt.scanned = {}

\* --------------------------------------- the manager's calls, step by step
\* Every ScanProgressManager method is load_state, a change to the record
\* and util_save_state; util_save_state is open(state_file, 'w'), which
\* truncates the file, and then json.dump.  No lock is taken, so the steps
\* of two processes interleave, and a process can die between two steps.
MaxCalls == 2

\* what each process calls: the engines start, mark and finish; the
\* dashboard's "Discard Progress" button calls clear_state
OpsOf(p) ==
  IF p = "engine"
  THEN { "start_new_scan", "mark_target_start", "mark_target_complete",
         "finish_scan" }
  ELSE { "clear_state" }

MarkOps == { "mark_target_start", "mark_target_complete" }
ClearOps == { "finish_scan", "clear_state" }

\* the file is written by p: the calls of the others are no longer alone
OthersSee(p, clears) ==
  [ q \in Procs |->
      IF q = p \/ mgr[q].pc \in { "unborn", "idle" } THEN mgr[q]
      ELSE [ mgr[q] EXCEPT !.alone = FALSE,
                           !.cleared = @ \/ (clears /\ mgr[q].pc # "dead") ] ]

\* __init__: _ensure_file
MgrNew ==
  \E p \in Procs :
    /\ mgr[p].pc \in { "unborn", "dead" }
    /\ file' = ensure_file(file)
    /\ mgr' = [ OthersSee(p, FALSE) EXCEPT
                  ![p] = [ NoManager EXCEPT !.pc = "idle",
                                            !.calls = mgr[p].calls ] ]
    /\ UNCHANGED << pc, runvars, exit, call, scanvars >>
    /\ UNCHANGED << win, cal, ttl, hunt, api >>

\* a method is called
MgrCall ==
  \E p \in Procs :
    /\ mgr[p].pc = "idle"
    /\ mgr[p].calls < MaxCalls
    /\ \E op \in OpsOf(p), t \in Range(ApiNames) :
         mgr' = [ mgr EXCEPT
                    ![p] = [ op |-> op, target |-> t,
                             pc |-> IF op = "start_new_scan" THEN "open"
                                    ELSE "load",
                             state |->
                               IF op = "start_new_scan"
                               THEN start_new_scan("COMPANY", ApiNames,
                                                   "2025-01-06").data
                               ELSE DefaultState,
                             before |-> file, alone |-> TRUE,
                             cleared |-> FALSE,
                             calls |-> mgr[p].calls + 1 ] ]
    /\ UNCHANGED << progvars, win, cal, ttl, hunt, api >>

\* load_state and the change the method makes to the record; the mark
\* methods return here when the record loaded is not active
MgrLoad ==
  \E p \in Procs :
    /\ mgr[p].pc = "load"
    /\ LET state == load_state(file)
           m == mgr[p]
           returns == m.op \in MarkOps /\ ~state.active_scan
           changed ==
             CASE m.op = "mark_target_start" ->
                    mark_target_start(util_save_state(state), m.target).data
               [] m.op = "mark_target_complete" ->
                    mark_target_complete(util_save_state(state),
                                         m.target).data
               [] OTHER -> finish_scan(util_save_state(state)).data
       IN /\ file' = IF file.disk = "ok" THEN file
                     ELSE util_save_state(DefaultState)
          /\ mgr' = [ (IF file.disk = "ok" THEN mgr
                       ELSE OthersSee(p, FALSE)) EXCEPT
                        ![p] = [ m EXCEPT
                                   !.pc = IF returns THEN "idle" ELSE "open",
                                   !.state = changed ] ]
    /\ UNCHANGED << pc, runvars, exit, call, scanvars >>
    /\ UNCHANGED << win, cal, ttl, hunt, api >>

\* util_save_state: open(state_file, 'w') leaves an empty file
MgrOpen ==
  \E p \in Procs :
    /\ mgr[p].pc = "open"
    /\ file' = CorruptFile
    /\ mgr' = [ OthersSee(p, FALSE) EXCEPT ![p].pc = "dump" ]
    /\ UNCHANGED << pc, runvars, exit, call, scanvars >>
    /\ UNCHANGED << win, cal, ttl, hunt, api >>

\* util_save_state: json.dump and close; the method returns
MgrDump ==
  \E p \in Procs :
    /\ mgr[p].pc = "dump"
    /\ file' = util_save_state(mgr[p].state)
    /\ mgr' = [ OthersSee(p, mgr[p].op \in ClearOps) EXCEPT
                  ![p].pc = "idle" ]
    /\ UNCHANGED << pc, runvars, exit, call, scanvars >>
    /\ UNCHANGED << win, cal, ttl, hunt, api >>

\* the process dies inside the call
MgrDie ==
  \E p \in Procs :
    /\ mgr[p].pc \in { "load", "open", "dump" }
    /\ mgr' = [ mgr EXCEPT ![p].pc = "dead" ]
    /\ UNCHANGED << progvars, win, cal, ttl, hunt, api >>

NextSteps ==
  \/ MgrNew
  \/ MgrCall
  \/ MgrLoad
  \/ MgrOpen
  \/ MgrDump
  \/ MgrDie

SpecSteps == Init /\ [][NextSteps]_vars

\* the file a call leaves when nothing else touches it and it runs to its end
ManagerAfter(m) ==
  CASE m.op = "start_new_scan" -> util_save_state(m.state)
    [] m.op = "mark_target_start" -> mark_target_start(m.before, m.target)
    [] m.op = "mark_target_complete" ->
         mark_target_complete(m.before, m.target)
    [] OTHER -> finish_scan(m.before)

\* C32: a mark_target_start / mark_target_complete call during which a
\* finish_scan / clear_state of another process completed does not leave
\* the persisted state active when it returns.
C32_ClearedStaysInactive ==
  \A p \in Procs :
    (/\ mgr[p].pc = "idle"
     /\ mgr[p].op \in MarkOps
     /\ mgr[p].cleared)
    => ~load_state(file).active_scan

\* C33: when a process dies inside a manager call that no other process
\* interfered with, the persisted state is the one from before the call or
\* the one the call would have left.
C33_CrashKeepsState ==
  \A p \in Procs :
    (mgr[p].pc = "dead" /\ mgr[p].alone)
    => load_state(file) \in { load_state(mgr[p].before),
                              load_state(ManagerAfter(mgr[p])) }

\* C34: whenever an engine has called mark_target_start for a target, every
\* target it started before that one is in the persisted completed_targets.
C34_CompletedBeforeNext ==
  \A i \in 1..(Len(started) - 1) :
    In(started[i], Persisted.completed_targets)

\* C35: every title and every url in the in-run dedup index was either
\* read from the store when the run began or belongs to an article the run
\* has inserted into the store since.
C35_IndexedOnlyAfterInsert ==
  LET inserted == store \ store0 IN
  /\ \A t \in seen_titles :
       \/ t \in fetch_existing_titles(store0)
       \/ \E a \in inserted : t \in { norm_title(a.title), a.title }
  /\ \A u \in seen_urls :
       \/ u \in fetch_cache_map(store0)
       \/ \E a \in inserted : u \in { a.url, clean_url(a.url) }

\* C36: in run_macro_scan no fetch is made with a browser session that
\* quit() or force_quit_driver() has been called on: after a
\* DeadDriverException every later fetch of the run uses a session
\* launched after it.
C36_NoFetchOnQuitSession ==
  eng = "macro" => ~drv.stale

\* C37: in run_macro_scan, a feed entry of an EVENT_WATCH target whose
\* title names ZACKS is not stopped by a title filter: it is neither
\* persisted as HIDDEN for its title nor skipped by the blocklist.
C37_EventWatchKeepsZacks ==
  (/\ eng = "macro"
   /\ pc = "body"
   /\ cpc \in { "pick", "fetch" }
   /\ cur.verdict # "none"
   /\ IsEventWatch(eng, targets[idx])
   /\ Contains(cur.c.title, "ZACKS"))
  => cur.verdict \notin { "hidden_title", "blocklisted" }

\* C38: a fetch whose url is on a non-US Yahoo host, or that leaves the
\* browser on one, does not return content: neither extracted text nor a
\* placeholder comes back, and the engine does not take the entry.
C38_NonUsNeverReturned ==
  (/\ cur.event # "none"
   /\ \/ NonUsYahoo(cur.c.url)
      \/ cur.landed = "uk.finance.yahoo.com")
  => /\ ~Truthy(fetch_yahoo_selenium(cur.event))
     /\ ~cur.appended

\* C39: every engine step of run_automation is called with a dedup seed
\* that covers the articles committed by the engine steps before it in the
\* same attempt.
C39_SeedCoversEarlierPhases ==
  \A call_ \in hunt.seeds : call_.articles \subseteq call_.seed

\* ------------------------------------------- the MarketAux request loop
\* MarketAuxEngine._fetch_ticker_metadata followed request by request, for
\* engines built with 1..MaxKeys API keys.
MaxKeys == 3

\* what one request can end in: the usage_limit_reached error, any other
\* error object, an empty data list, a data list with items, or an
\* exception (requests.get, resp.json or the handling of the answer raises)
ApiResponses ==
  { "usage_limit_reached", "other_error", "empty", "items", "exception" }

\* the responses after which the while loop comes round again
RetriedResponses == { "usage_limit_reached", "exception" }

\* _get_next_key wrapping one key too late
get_next_key_Late(current_key_idx, n) == (current_key_idx + 1) % (n + 1)

\* _get_next_key: the new current_key_idx (the caller drops the key
\* returned)
get_next_key(current_key_idx, n) == (current_key_idx + 1) % n

\* MarketAuxEngine(api_keys, log_callback)
MetaNew ==
  /\ api.pc = "none"
  /\ \E n \in 1..MaxKeys :
       api' = [ NoApi EXCEPT !.pc = "ready", !.n = n ]
  /\ UNCHANGED << progvars, win, cal, ttl, hunt, mgr >>

\* _fetch_ticker_metadata is called: page 1
MetaCall ==
  /\ api.pc = "ready"
  /\ api' = [ api EXCEPT !.pc = "request", !.page = 1,
                         !.ticker_attempts = 0, !.success = FALSE,
                         !.found = FALSE, !.last = "none",
                         !.prev_idx = api.current_key_idx ]
  /\ UNCHANGED << progvars, win, cal, ttl, hunt, mgr >>

\* one turn of "while ticker_attempts < 3 and not success"
MetaRequest ==
  /\ api.pc = "request"
  /\ \E resp \in ApiResponses :
       LET attempts == IF resp \in RetriedResponses
                         THEN api.ticker_attempts + 1
                         ELSE api.ticker_attempts
           success == resp \in { "empty", "items" }
           again == resp \in RetriedResponses /\ attempts < 3
       IN  api' = [ api EXCEPT
                      !.pc = IF again THEN "request" ELSE "page_end",
                      !.current_key_idx =
                         IF resp = "usage_limit_reached"
                           THEN get_next_key(@, api.n) ELSE @,
                      !.ticker_attempts = attempts,
                      !.success = success,
                      !.found = @ \/ resp = "items",
                      !.last = resp,
                      !.prev_idx = api.current_key_idx ]
  /\ UNCHANGED << progvars, win, cal, ttl, hunt, mgr >>

\* the end of the for body: page 2 follows page 1 when page 1 brought items
MetaNextPage ==
  /\ api.pc = "page_end"
  /\ api.page = 1
  /\ api.found
  /\ api' = [ api EXCEPT !.pc = "request", !.page = 2,
                         !.ticker_attempts = 0, !.success = FALSE ]
  /\ UNCHANGED << progvars, win, cal, ttl, hunt, mgr >>

\* "if page == 1 and ticker_articles_found == 0: break", or the list of
\* pages is used up: return articles
MetaReturn ==
  /\ api.pc = "page_end"
  /\ api.page = 2 \/ ~api.found
  /\ api' = [ api EXCEPT !.pc = "ready" ]
  /\ UNCHANGED << progvars, win, cal, ttl, hunt, mgr >>

NextMeta ==
  \/ MetaNew
  \/ MetaCall
  \/ MetaRequest
  \/ MetaNextPage
  \/ MetaReturn

\* the call is a sequential loop: a step that can be taken is taken
SpecMeta == Init /\ [][NextMeta]_vars /\ WF_vars(NextMeta)

\* C40: a _fetch_ticker_metadata call returns; while it runs a page sees at
\* most 3 requests that end in the rate-limit error or an exception, a
\* rate-limit response moves current_key_idx on by one modulo the number of
\* keys, and current_key_idx stays within 0..n-1.
C40_MetadataLoopBounded ==
  /\ [](/\ api.ticker_attempts <= 3
        /\ api.pc = "request" => api.ticker_attempts < 3
        /\ api.current_key_idx \in 0..(api.n - 1)
        /\ api.last = "usage_limit_reached"
             => api.current_key_idx = (api.prev_idx + 1) % api.n
        /\ api.last \in ApiResponses \ { "usage_limit_reached" }
             => api.current_key_idx = api.prev_idx)
  /\ (api.pc = "request") ~> (api.pc = "ready")

C40_Witness ==
  /\ api.pc = "ready"
  /\ api.n = 2
  /\ api.page = 2
  /\ api.ticker_attempts = 3
  /\ api.last = "usage_limit_reached"
  /\ api.prev_idx = 1
  /\ api.current_key_idx = 0

====
